---- MODULE Spec2Model ----
(***************************************************************************)
(* A model of universal-file-client: the UniversalFileClient orchestrator  *)
(* (src/src/universal-ftp-client.ts), the ProtocolDetector                 *)
(* (src/unnamed/part_001) and the three protocol adapters                  *)
(* (src/src/adapters/*.ts).                                                *)
(*                                                                         *)
(* Strings the code inspects (hosts, paths) are sequences of one-character *)
(* strings.  An error message is a sequence of fragments, so that wrapping *)
(* an error (`Failed to list directory: ${error.message}`) is prepending   *)
(* a fragment.  A null reference of the Client is 0 (adapter), "null"      *)
(* (protocol) or the empty sequence (connectionConfig).                    *)
(***************************************************************************)
EXTENDS Naturals, Integers, Sequences, FiniteSets, TLC

VARIABLES
    adapter,           \* UniversalFileClient.adapter: 0 = null, else index in handlers
    protocol,          \* UniversalFileClient.protocol: "null" or a tag
    connectionConfig,  \* UniversalFileClient.connectionConfig: <<>> = null, else <<config>>
    handlers,          \* every adapter object constructed so far, in order of construction
    pc,                \* "idle", or the position of the download in progress
    op,                \* name of the public method called last
    arg,               \* its arguments
    outcome,           \* how it ended: [done, ok, err, val]
    calls,             \* the handler methods it invoked, in order
    sleeps,            \* the delays (ms) it waited, in order
    dl                 \* locals of the download in progress: retries, retryDelay, attempt

vars == <<adapter, protocol, connectionConfig, handlers, pc, op, arg, outcome,
          calls, sleeps, dl>>

----------------------------------------------------------------------------
(* Bounds of the model *)

\* connect() constructs a new adapter on every call; the model stops after this many
MaxHandlers == 2

----------------------------------------------------------------------------
(* Strings *)

StartsWith(s, p) == Len(s) >= Len(p) /\ SubSeq(s, 1, Len(p)) = p

\* 1-based index of the first occurrence of p in s, 0 when there is none
IndexOf(s, p) ==
    LET at == {i \in 1..(Len(s) + 1) : i + Len(p) - 1 <= Len(s)
                                       /\ SubSeq(s, i, i + Len(p) - 1) = p}
    IN  IF at = {} THEN 0 ELSE CHOOSE i \in at : \A j \in at : i <= j

Includes(s, p) == IndexOf(s, p) # 0

sFTP   == <<"f", "t", "p">>
sFTPS  == <<"f", "t", "p", "s">>
sSFTP  == <<"s", "f", "t", "p">>
sHTTP  == <<"h", "t", "t", "p">>
sHTTPS == <<"h", "t", "t", "p", "s">>
sColon == <<":">>
sSep   == <<":", "/", "/">>

Tags == {"ftp", "ftps", "sftp", "http", "https"}

----------------------------------------------------------------------------
(* ProtocolDetector *)

\* the characters of a tag
TagChars(tag) ==
    CASE tag = "ftp"   -> sFTP
      [] tag = "ftps"  -> sFTPS
      [] tag = "sftp"  -> sSFTP
      [] tag = "http"  -> sHTTP
      [] tag = "https" -> sHTTPS

\* a detect() that takes an unknown scheme for ftp
unsupportedProtocolAsFtp(scheme) == [ok |-> TRUE, tag |-> "ftp", err |-> <<>>]

\* throw new Error(`Unsupported protocol: ${protocol}`)
unsupportedProtocol(scheme) ==
    [ok |-> FALSE, tag |-> "null", err |-> <<"Unsupported protocol: ">> \o scheme]

\* transferMode = <<>> stands for an omitted (or empty, equally falsy) hint.
\* The result is [ok |-> TRUE, tag] or [ok |-> FALSE, err] for the thrown Error.
detect(host, transferMode) ==
    IF transferMode # <<>> /\ StartsWith(transferMode, sSFTP)
        THEN [ok |-> TRUE, tag |-> "sftp", err |-> <<>>]
    ELSE IF transferMode # <<>> /\ StartsWith(transferMode, sFTPS)
        THEN [ok |-> TRUE, tag |-> "ftps", err |-> <<>>]
    ELSE IF transferMode # <<>> /\ StartsWith(transferMode, sFTP)
        THEN [ok |-> TRUE, tag |-> "ftp", err |-> <<>>]
    ELSE IF transferMode # <<>> /\ StartsWith(transferMode, sHTTPS)
        THEN [ok |-> TRUE, tag |-> "https", err |-> <<>>]
    ELSE IF transferMode # <<>> /\ StartsWith(transferMode, sHTTP)
        THEN [ok |-> TRUE, tag |-> "http", err |-> <<>>]
    ELSE IF StartsWith(host, sSFTP \o sSep) \/ StartsWith(host, sSFTP \o sColon)
        THEN [ok |-> TRUE, tag |-> "sftp", err |-> <<>>]
    ELSE IF StartsWith(host, sFTPS \o sSep) \/ StartsWith(host, sFTPS \o sColon)
        THEN [ok |-> TRUE, tag |-> "ftps", err |-> <<>>]
    ELSE IF StartsWith(host, sFTP \o sSep) \/ StartsWith(host, sFTP \o sColon)
        THEN [ok |-> TRUE, tag |-> "ftp", err |-> <<>>]
    ELSE IF StartsWith(host, sHTTPS \o sSep)
        THEN [ok |-> TRUE, tag |-> "https", err |-> <<>>]
    ELSE IF StartsWith(host, sHTTP \o sSep)
        THEN [ok |-> TRUE, tag |-> "http", err |-> <<>>]
    ELSE IF Includes(host, sSep)
            /\ SubSeq(host, 1, IndexOf(host, sSep) - 1)
                   \notin {sFTP, sFTPS, sSFTP, sHTTP, sHTTPS}
        THEN unsupportedProtocol(SubSeq(host, 1, IndexOf(host, sSep) - 1))
    ELSE IF Includes(host, sSFTP)  THEN [ok |-> TRUE, tag |-> "sftp", err |-> <<>>]
    ELSE IF Includes(host, sHTTPS) THEN [ok |-> TRUE, tag |-> "https", err |-> <<>>]
    ELSE IF Includes(host, sHTTP)  THEN [ok |-> TRUE, tag |-> "http", err |-> <<>>]
    ELSE [ok |-> TRUE, tag |-> "ftp", err |-> <<>>]

\* normalizeHost: two anchored replacements one after the other, the first
\* of a tag followed by "://", the second of a tag followed by ":"
normalizeHost(host) ==
    LET strip(str, sep) ==
            LET found == {t \in Tags : StartsWith(str, TagChars(t) \o sep)}
            IN  IF found = {} THEN str
                ELSE LET t == CHOOSE x \in found : TRUE
                     IN  SubSeq(str, Len(TagChars(t) \o sep) + 1, Len(str))
    IN  strip(strip(host, sSep), sColon)

----------------------------------------------------------------------------
(* Inputs *)

sH == <<"h">>

\* ConnectionConfig, reduced to the fields the modelled code reads: every host
\* with the optional fields omitted, and the file-transfer hosts also with
\* the secure flag and with an initial directory
Configs ==
    LET \* config.host values: one per tag, a bare host, an unknown scheme,
        \* the empty host
        Hosts == { sFTP \o sSep \o sH, sFTPS \o sSep \o sH, sSFTP \o sSep \o sH,
                   sHTTP \o sSep \o sH, sHTTPS \o sSep \o sH,
                   sH, <<"g">> \o sSep \o sH, <<>> }
        \* config.directoryPath values: omitted (or empty) and a directory
        Dirs == { <<>>, <<"d">> }
    IN  [host : Hosts, secure : {FALSE}, directoryPath : {<<>>}]
        \cup [host : {sFTP \o sSep \o sH, sFTPS \o sSep \o sH}, secure : {TRUE},
              directoryPath : {<<>>}]
        \cup [host : {sFTP \o sSep \o sH}, secure : {FALSE}, directoryPath : Dirs]

\* failures of the external transfer libraries
LibErrors == {"e1", "e2"}

NoErr == <<>>

----------------------------------------------------------------------------
(* Adapters.  An adapter object is [kind, isConnected, open]: its class,    *)
(* its isConnected field, and whether the library client it owns holds a   *)
(* live connection.  connect and disconnect yield the set of their         *)
(* possible outcomes [h, ok, err, secure], one per outcome of the external *)
(* library; secure is the `secure` option handed to the library.           *)

NewAdapter(kind) == [kind |-> kind, isConnected |-> FALSE, open |-> FALSE]

FtpAdapterConnect(h, config) ==
    LET isSecure == config.secure \/ Includes(config.host, sFTPS)
        accessFails == { [h |-> [h EXCEPT !.isConnected = FALSE], ok |-> FALSE,
                          err |-> <<"FTP connection failed: ", e>>, secure |-> isSecure]
                         : e \in LibErrors }
        connected == [h EXCEPT !.isConnected = TRUE, !.open = TRUE]
        cdFails == { [h |-> [connected EXCEPT !.isConnected = FALSE], ok |-> FALSE,
                      err |-> <<"FTP connection failed: ", e>>, secure |-> isSecure]
                     : e \in LibErrors }
    IN  accessFails
        \cup { [h |-> connected, ok |-> TRUE, err |-> NoErr, secure |-> isSecure] }
        \cup (IF config.directoryPath # <<>> THEN cdFails ELSE {})

SftpAdapterConnect(h, config) ==
    { [h |-> [h EXCEPT !.isConnected = TRUE, !.open = TRUE], ok |-> TRUE, err |-> NoErr,
       secure |-> FALSE] }
    \cup { [h |-> [h EXCEPT !.isConnected = FALSE], ok |-> FALSE,
            err |-> <<"SFTP connection failed: ", e>>, secure |-> FALSE] : e \in LibErrors }

HttpAdapterConnect(h, config) ==
    { [h |-> [h EXCEPT !.isConnected = TRUE], ok |-> TRUE, err |-> NoErr, secure |-> FALSE] }

AdapterConnect(h, config) ==
    CASE h.kind = "ftp"  -> FtpAdapterConnect(h, config)
      [] h.kind = "sftp" -> SftpAdapterConnect(h, config)
      [] h.kind = "http" -> HttpAdapterConnect(h, config)

FtpAdapterDisconnect(h) ==
    IF h.isConnected
    THEN { [h |-> [h EXCEPT !.isConnected = FALSE, !.open = FALSE], ok |-> TRUE, err |-> NoErr] }
    ELSE { [h |-> h, ok |-> TRUE, err |-> NoErr] }

\* `await this.client.end()` may reject; isConnected is then left as it was
SftpAdapterDisconnect(h) ==
    IF h.isConnected
    THEN { [h |-> [h EXCEPT !.isConnected = FALSE, !.open = FALSE], ok |-> TRUE, err |-> NoErr] }
         \cup { [h |-> h, ok |-> FALSE, err |-> <<e>>] : e \in LibErrors }
    ELSE { [h |-> h, ok |-> TRUE, err |-> NoErr] }

HttpAdapterDisconnect(h) ==
    { [h |-> [h EXCEPT !.isConnected = FALSE], ok |-> TRUE, err |-> NoErr] }

AdapterDisconnect(h) ==
    CASE h.kind = "ftp"  -> FtpAdapterDisconnect(h)
      [] h.kind = "sftp" -> SftpAdapterDisconnect(h)
      [] h.kind = "http" -> HttpAdapterDisconnect(h)

----------------------------------------------------------------------------
(* path (posix): dirname, basename, parse *)

\* index of the last "/" of p, 0 when there is none
LastSlash(p) ==
    LET at == {i \in 1..Len(p) : p[i] = "/"}
    IN  IF at = {} THEN 0 ELSE CHOOSE i \in at : \A j \in at : j <= i

\* path.basename, for paths without a trailing slash
PathBasename(p) == SubSeq(p, LastSlash(p) + 1, Len(p))

\* path.dirname, for paths without a trailing slash
PathDirname(p) ==
    IF LastSlash(p) = 0 THEN <<".">>
    ELSE IF LastSlash(p) = 1 THEN <<"/">>
    ELSE SubSeq(p, 1, LastSlash(p) - 1)

----------------------------------------------------------------------------
(* What the external libraries can answer *)

\* modification times (epoch millis) the remote side reports; 0 is the epoch
MaxTime == 2

Times == 0..MaxTime

\* the time Date.now() returns
Now == MaxTime + 1

nA  == <<"a", ".", "t">>
nA1 == <<"a", "_", "1", ".", "t">>
nB  == <<"b", ".", "t">>
nD  == <<"a">>

\* a directory entry as a transfer library reports it
LibEntry(name, type, time) == [name |-> name, type |-> type, time |-> time]

\* directory listings a transfer library can report
LibListings ==
    { <<>>,
      << LibEntry(nD, "d", 2), LibEntry(nA1, "-", 1) >>,
      << LibEntry(nA1, "-", 2), LibEntry(nB, "-", 0), LibEntry(nA, "-", 1) >> }

\* downloaded contents
Payloads == {"p1", "p2"}

\* a FileInfo of the Client; modifyTime is <<>> when absent, else <<millis>>
FileInfo(name, isDirectory, date, modifyTime) ==
    [name |-> name, type |-> IF isDirectory THEN "directory" ELSE "file",
     isDirectory |-> isDirectory, date |-> date, modifyTime |-> modifyTime]

Ok(val) == [ok |-> TRUE, err |-> NoErr, val |-> val]

Err(err) == [ok |-> FALSE, err |-> err, val |-> <<>>]

\* Array.prototype.filter
RECURSIVE SelectSeqOf(_, _)
SelectSeqOf(s, keep) ==
    IF s = <<>> THEN <<>>
    ELSE IF Head(s) \in keep THEN <<Head(s)>> \o SelectSeqOf(Tail(s), keep)
    ELSE SelectSeqOf(Tail(s), keep)

Range(s) == {s[i] : i \in 1..Len(s)}

----------------------------------------------------------------------------
(* Adapters: the data operations.  Each yields the set of its possible     *)
(* outcomes [ok, err, val]; val is a sequence: <<>> for void or null.  The *)
(* value of a list method is followed in val by the listing the transfer   *)
(* library reported to it.                                                  *)

\* the .map of the list methods: a library entry as a FileInfo
RECURSIVE MapFileInfo(_)
MapFileInfo(s) ==
    IF s = <<>> THEN <<>>
    ELSE << FileInfo(Head(s).name, Head(s).type = "d", Head(s).time, <<Head(s).time>>) >>
         \o MapFileInfo(Tail(s))

FtpAdapterList(h) ==
    IF ~h.isConnected THEN { Err(<<"Not connected to FTP server">>) }
    ELSE { Ok(<< MapFileInfo(SelectSeqOf(l, {e \in Range(l) : e.type # "d"})), l >>)
           : l \in LibListings }
         \cup { Err(<<"Failed to list FTP directory: ", e>>) : e \in LibErrors }

SftpAdapterList(h) ==
    IF ~h.isConnected THEN { Err(<<"Not connected to SFTP server">>) }
    ELSE { Ok(<< MapFileInfo(SelectSeqOf(l, {e \in Range(l) : e.type = "-"})), l >>)
           : l \in LibListings }
         \cup { Err(<<"Failed to list SFTP directory: ", e>>) : e \in LibErrors }

\* a list() that answers an empty listing instead of throwing
HttpAdapterListAnswersEmpty(h) == { Ok(<< <<>>, <<>> >>) }

HttpAdapterList(h) == { Err(<<"HTTP adapter does not support directory listing">>) }

\* the longest listing the mock adapter answers
MaxListLen == 3

mockFiles ==
    { FileInfo(<<"f", "1">>, FALSE, 1, <<>>), FileInfo(<<"d", "1">>, TRUE, 1, <<>>),
      FileInfo(<<"f", "2">>, FALSE, 2, <<>>), FileInfo(<<"d", "2">>, TRUE, 2, <<>>) }

RECURSIVE SeqsUpTo(_, _)
SeqsUpTo(S, n) ==
    IF n = 0 THEN { <<>> }
    ELSE SeqsUpTo(S, n - 1)
         \cup { Append(q, x) : q \in {t \in SeqsUpTo(S, n - 1) : Len(t) = n - 1}, x \in S }

\* the adapter of the unit tests: an object with a list method that resolves
\* to whatever listing the test chose, or rejects
MockAdapterList(h) ==
    { Ok(<<l>>) : l \in SeqsUpTo(mockFiles, MaxListLen) }
    \cup { Err(<<e>>) : e \in LibErrors }

AdapterList(h) ==
    CASE h.kind = "ftp"  -> FtpAdapterList(h)
      [] h.kind = "sftp" -> SftpAdapterList(h)
      [] h.kind = "http" -> HttpAdapterList(h)
      [] h.kind = "mock" -> MockAdapterList(h)

FtpAdapterDownload(h) ==
    IF ~h.isConnected THEN { Err(<<"Not connected to FTP server">>) }
    ELSE { Ok(<<p>>) : p \in Payloads }
         \cup { Err(<<"Failed to download file from FTP: ", e>>) : e \in LibErrors }

SftpAdapterDownload(h) ==
    IF ~h.isConnected THEN { Err(<<"Not connected to SFTP server">>) }
    ELSE { Ok(<<p>>) : p \in Payloads }
         \cup { Err(<<"Failed to download file from SFTP: ", e>>) : e \in LibErrors }

\* an invalid URL and a status other than 200 are failures inside the try
\* block like a failed request: all are rethrown with the same prefix
HttpAdapterDownload(h) ==
    IF ~h.isConnected THEN { Err(<<"Not connected to HTTP server">>) }
    ELSE { Ok(<<p>>) : p \in Payloads }
         \cup { Err(<<"Failed to download file from HTTP: ", e>>) : e \in LibErrors }

AdapterDownload(h) ==
    CASE h.kind = "ftp"  -> FtpAdapterDownload(h)
      [] h.kind = "sftp" -> SftpAdapterDownload(h)
      [] h.kind = "http" -> HttpAdapterDownload(h)

FtpAdapterUpload(h) ==
    IF ~h.isConnected THEN { Err(<<"Not connected to FTP server">>) }
    ELSE { Ok(<<>>) } \cup { Err(<<"Failed to upload file to FTP: ", e>>) : e \in LibErrors }

SftpAdapterUpload(h) ==
    IF ~h.isConnected THEN { Err(<<"Not connected to SFTP server">>) }
    ELSE { Ok(<<>>) } \cup { Err(<<"Failed to upload file to SFTP: ", e>>) : e \in LibErrors }

HttpAdapterUpload(h) == { Err(<<"HTTP adapter does not support file upload">>) }

AdapterUpload(h) ==
    CASE h.kind = "ftp"  -> FtpAdapterUpload(h)
      [] h.kind = "sftp" -> SftpAdapterUpload(h)
      [] h.kind = "http" -> HttpAdapterUpload(h)

\* lists the parent directory and looks the base name up; a failed listing is null
FtpAdapterStat(h, filePath) ==
    IF ~h.isConnected THEN { Err(<<"Not connected to FTP server">>) }
    ELSE { LET found == SelectSeqOf(l, {e \in Range(l) : e.name = PathBasename(filePath)})
           IN  IF found = <<>> THEN Ok(<<>>)
               ELSE Ok(<< FileInfo(found[1].name, found[1].type = "d",
                                   found[1].time, <<found[1].time>>) >>)
           : l \in LibListings }
         \cup { Ok(<<>>) }

\* client.stat answers {isDirectory, modifyTime} or throws (null);
\* `stats.modifyTime || Date.now()` replaces a modifyTime of 0 by the current time
SftpAdapterStat(h, filePath) ==
    IF ~h.isConnected THEN { Err(<<"Not connected to SFTP server">>) }
    ELSE { Ok(<< FileInfo(PathBasename(filePath), d,
                          IF t = 0 THEN Now ELSE t, << IF t = 0 THEN Now ELSE t >>) >>)
           : d \in BOOLEAN, t \in Times }
         \cup { Ok(<<>>) }

\* a HEAD request: status 200 with or without a last-modified header (<<>>),
\* or anything else (null)
HttpAdapterStat(h, filePath) ==
    IF ~h.isConnected THEN { Err(<<"Not connected to HTTP server">>) }
    ELSE { Ok(<< FileInfo(PathBasename(filePath), FALSE,
                          IF lm = <<>> THEN Now ELSE lm[1],
                          << IF lm = <<>> THEN Now ELSE lm[1] >>) >>)
           : lm \in {<<>>} \cup {<<t>> : t \in Times} }
         \cup { Ok(<<>>) }

AdapterStat(h, filePath) ==
    CASE h.kind = "ftp"  -> FtpAdapterStat(h, filePath)
      [] h.kind = "sftp" -> SftpAdapterStat(h, filePath)
      [] h.kind = "http" -> HttpAdapterStat(h, filePath)

FtpAdapterExists(h, filePath) ==
    { IF r.ok THEN Ok(<<r.val # <<>>>>) ELSE r : r \in FtpAdapterStat(h, filePath) }

SftpAdapterExists(h, filePath) ==
    IF ~h.isConnected THEN { Err(<<"Not connected to SFTP server">>) }
    ELSE { Ok(<<TRUE>>), Ok(<<FALSE>>) }

HttpAdapterExists(h, filePath) ==
    { IF r.ok THEN Ok(<<r.val # <<>>>>) ELSE r : r \in HttpAdapterStat(h, filePath) }

AdapterExists(h, filePath) ==
    CASE h.kind = "ftp"  -> FtpAdapterExists(h, filePath)
      [] h.kind = "sftp" -> SftpAdapterExists(h, filePath)
      [] h.kind = "http" -> HttpAdapterExists(h, filePath)

FtpAdapterLastModified(h, filePath) ==
    IF ~h.isConnected THEN { Err(<<"Not connected to FTP server">>) }
    ELSE { Ok(<<t>>) : t \in Times } \cup { Ok(<<>>) }

SftpAdapterLastModified(h, filePath) ==
    { IF r.ok /\ r.val # <<>> THEN Ok(<<r.val[1].date>>) ELSE r
      : r \in SftpAdapterStat(h, filePath) }

HttpAdapterLastModified(h, filePath) ==
    { IF r.ok /\ r.val # <<>> THEN Ok(<<r.val[1].date>>) ELSE r
      : r \in HttpAdapterStat(h, filePath) }

AdapterLastModified(h, filePath) ==
    CASE h.kind = "ftp"  -> FtpAdapterLastModified(h, filePath)
      [] h.kind = "sftp" -> SftpAdapterLastModified(h, filePath)
      [] h.kind = "http" -> HttpAdapterLastModified(h, filePath)

\* a HEAD request: the content type is JSON or not and a last-modified header
\* is present or not; a failed request is {isJson: false, lastModified: null}
HttpAdapterGetFileInfo(h) ==
    IF ~h.isConnected THEN { Err(<<"Not connected to HTTP server">>) }
    ELSE { Ok(<< [isJson |-> j, lastModified |-> lm] >>)
           : j \in BOOLEAN, lm \in {<<>>} \cup {<<t>> : t \in Times} }

\* `this.adapter as HttpAdapter` is a cast: on another adapter class the call
\* is a TypeError
AdapterGetFileInfo(h) ==
    CASE h.kind = "http" -> HttpAdapterGetFileInfo(h)
      [] OTHER           -> { Err(<<"TypeError">>) }

----------------------------------------------------------------------------
(* path.parse and path.join *)

\* index of the last "." of s, 0 when there is none
LastDot(s) ==
    LET at == {i \in 1..Len(s) : s[i] = "."}
    IN  IF at = {} THEN 0 ELSE CHOOSE i \in at : \A j \in at : j <= i

\* path.parse(p).ext: from the last "." of the base name on, unless that
\* "." is its first character (or the base name is "..")
PathExt(p) ==
    LET base == PathBasename(p) IN
    IF LastDot(base) <= 1 \/ base = <<".", ".">> THEN <<>>
    ELSE SubSeq(base, LastDot(base), Len(base))

\* path.parse(p).name
PathName(p) ==
    LET base == PathBasename(p) IN SubSeq(base, 1, Len(base) - Len(PathExt(p)))

\* path.join(dir, name) for a dir that path.dirname returned and a name
\* without "/" or "." segments
PathJoin(dir, name) ==
    IF name = <<>> THEN dir
    ELSE IF dir = <<".">> THEN name
    ELSE IF dir = <<"/">> THEN <<"/">> \o name
    ELSE dir \o <<"/">> \o name

----------------------------------------------------------------------------
(* FileMatcher *)

UpperCase == <<"A", "B", "C", "D", "E", "F", "G", "H", "I", "J", "K", "L", "M",
               "N", "O", "P", "Q", "R", "S", "T", "U", "V", "W", "X", "Y", "Z">>

LowerCase == <<"a", "b", "c", "d", "e", "f", "g", "h", "i", "j", "k", "l", "m",
               "n", "o", "p", "q", "r", "s", "t", "u", "v", "w", "x", "y", "z">>

Digits == {"0", "1", "2", "3", "4", "5", "6", "7", "8", "9"}

\* String.prototype.toLowerCase
ToLowerCase(s) ==
    [i \in 1..Len(s) |->
        IF \E k \in 1..Len(UpperCase) : UpperCase[k] = s[i]
        THEN LowerCase[CHOOSE k \in 1..Len(UpperCase) : UpperCase[k] = s[i]]
        ELSE s[i]]

RECURSIVE RemoveChars(_, _)
RemoveChars(s, drop) ==
    IF s = <<>> THEN <<>>
    ELSE IF Head(s) \in drop THEN RemoveChars(Tail(s), drop)
    ELSE <<Head(s)>> \o RemoveChars(Tail(s), drop)

\* lower-case, then every run of "_", white space and "-" removed; the trim()
\* that follows finds no white space left
normalizeString(str) == RemoveChars(ToLowerCase(str), {"_", " ", "-"})

\* s[from..from+n-1] exist and are digits
DigitsAt(s, from, n) == from + n - 1 <= Len(s) /\ \A i \in from..(from + n - 1) : s[i] \in Digits

CharAt(s, i, c) == i <= Len(s) /\ s[i] = c

\* the eight patterns of isDateTimeSuffix, each from index k + 1 of s, k being
\* the length of what the leading `_?` took
dateYMD(s, k) ==   \* \d{4}-?\d{2}-?\d{2}
    \E a \in {0, 1}, b \in {0, 1} :
        /\ DigitsAt(s, k + 1, 4)
        /\ a = 1 => CharAt(s, k + 5, "-")
        /\ DigitsAt(s, k + 5 + a, 2)
        /\ b = 1 => CharAt(s, k + 7 + a, "-")
        /\ DigitsAt(s, k + 7 + a + b, 2)

dateDMY(s, k) ==   \* \d{2}-?\d{2}-?\d{4}
    \E a \in {0, 1}, b \in {0, 1} :
        /\ DigitsAt(s, k + 1, 2)
        /\ a = 1 => CharAt(s, k + 3, "-")
        /\ DigitsAt(s, k + 3 + a, 2)
        /\ b = 1 => CharAt(s, k + 5 + a, "-")
        /\ DigitsAt(s, k + 5 + a + b, 4)

digits8(s, k) == DigitsAt(s, k + 1, 8)   \* \d{8}

digits6(s, k) == DigitsAt(s, k + 1, 6)   \* \d{6}

digits4(s, k) == DigitsAt(s, k + 1, 4)   \* \d{4}

number12(s, k) ==   \* \d{1,2}$
    \/ DigitsAt(s, k + 1, 1) /\ Len(s) = k + 1
    \/ DigitsAt(s, k + 1, 2) /\ Len(s) = k + 2

version(s, k) ==   \* v?\d+(\.\d+)* : satisfied as soon as one digit is found
    \/ DigitsAt(s, k + 1, 1)
    \/ CharAt(s, k + 1, "v") /\ DigitsAt(s, k + 2, 1)

timeHM(s, k) ==   \* \d{2}:\d{2}
    DigitsAt(s, k + 1, 2) /\ CharAt(s, k + 3, ":") /\ DigitsAt(s, k + 4, 2)

isDateTimeSuffix(suffix) ==
    \E k \in {0, 1} :
        /\ k = 1 => CharAt(suffix, 1, "_")
        /\ \/ dateYMD(suffix, k)
           \/ dateDMY(suffix, k)
           \/ digits8(suffix, k)
           \/ digits6(suffix, k)
           \/ digits4(suffix, k)
           \/ number12(suffix, k)
           \/ version(suffix, k)
           \/ timeHM(suffix, k)

smartMatchNoExtensionCheck(fileName, basename, extname) ==
    LET normalizedFile == normalizeString(PathName(fileName))
        normalizedTarget == normalizeString(basename)
    IN  IF fileName = basename \o extname THEN TRUE
        ELSE IF normalizedFile = normalizedTarget THEN TRUE
        ELSE IF StartsWith(normalizedFile, normalizedTarget)
             THEN isDateTimeSuffix(SubSeq(normalizedFile, Len(normalizedTarget) + 1,
                                          Len(normalizedFile)))
        ELSE FALSE

smartMatchAnySuffix(fileName, basename, extname) ==
    LET normalizedFile == normalizeString(PathName(fileName))
        normalizedTarget == normalizeString(basename)
    IN  IF fileName = basename \o extname THEN TRUE
        ELSE IF extname # <<>> /\ ToLowerCase(PathExt(fileName)) # ToLowerCase(extname)
             THEN FALSE
        ELSE StartsWith(normalizedFile, normalizedTarget)

smartMatch(fileName, basename, extname) ==
    LET fileBasename == PathName(fileName)
        fileExt == PathExt(fileName)
        normalizedFile == normalizeString(fileBasename)
        normalizedTarget == normalizeString(basename)
    IN  IF fileName = basename \o extname THEN TRUE
        ELSE IF extname # <<>> /\ ToLowerCase(fileExt) # ToLowerCase(extname) THEN FALSE
        ELSE IF normalizedFile = normalizedTarget THEN TRUE
        ELSE IF StartsWith(normalizedFile, normalizedTarget)
             THEN isDateTimeSuffix(SubSeq(normalizedFile, Len(normalizedTarget) + 1,
                                          Len(normalizedFile)))
        ELSE FALSE

(* new RegExp(pattern).test(text) for patterns made of literal characters,  *)
(* ".", "*" after a character or ".", "^", "$" and "(".                     *)

\* new RegExp(pattern) throws a SyntaxError: a group that is never closed, or
\* a "*" with nothing to repeat
regexThrows(re) ==
    \/ \E i \in 1..Len(re) : re[i] = "("
    \/ \E i \in 1..Len(re) : re[i] = "*" /\ (i = 1 \/ re[i - 1] \in {"*", "^", "$"})

\* whether re matches text from index pos + 1 on
RECURSIVE regexMatchHere(_, _, _)
regexMatchHere(re, text, pos) ==
    IF re = <<>> THEN TRUE
    ELSE IF Len(re) >= 2 /\ re[2] = "*"
    THEN \E n \in 0..(Len(text) - pos) :
            /\ \A i \in (pos + 1)..(pos + n) : re[1] = "." \/ re[1] = text[i]
            /\ regexMatchHere(SubSeq(re, 3, Len(re)), text, pos + n)
    ELSE IF re[1] = "^" THEN pos = 0 /\ regexMatchHere(Tail(re), text, pos)
    ELSE IF re[1] = "$" THEN pos = Len(text) /\ regexMatchHere(Tail(re), text, pos)
    ELSE /\ pos < Len(text)
         /\ re[1] = "." \/ re[1] = text[pos + 1]
         /\ regexMatchHere(Tail(re), text, pos + 1)

regexTest(re, text) == \E pos \in 0..Len(text) : regexMatchHere(re, text, pos)

\* whether an exception leaves doesFileNameMatch: the only throwing step is
\* new RegExp of the regex case, inside a try whose catch returns false
regexUncaught(options, fileNameType) ==
    fileNameType = "regex" /\ regexThrows(options.basename)

doesFileNameMatchThrows(options, fileNameType) == FALSE

doesFileNameMatchExactIgnoresCase(fileInfo, options, fileNameType) ==
    CASE fileNameType = "exact"  -> ToLowerCase(fileInfo.name)
                                       = ToLowerCase(PathBasename(options.filepath))
      [] fileNameType = "prefix" -> StartsWith(fileInfo.name, options.basename)
      [] fileNameType = "regex"  -> IF regexThrows(options.basename) THEN FALSE
                                    ELSE regexTest(options.basename, fileInfo.name)
      [] OTHER                   -> smartMatch(fileInfo.name, options.basename, options.extname)

doesFileNameMatch(fileInfo, options, fileNameType) ==
    CASE fileNameType = "exact"  -> fileInfo.name = PathBasename(options.filepath)
      [] fileNameType = "prefix" -> StartsWith(fileInfo.name, options.basename)
      [] fileNameType = "regex"  -> IF regexThrows(options.basename) THEN FALSE
                                    ELSE regexTest(options.basename, fileInfo.name)
      [] OTHER                   -> smartMatch(fileInfo.name, options.basename, options.extname)

\* `a.modifyTime || a.date.getTime()`: an absent modifyTime and a modifyTime
\* of 0 both give the date
sortTime(f) ==
    IF f.modifyTime # <<>> /\ f.modifyTime[1] # 0 THEN f.modifyTime[1] ELSE f.date

\* f put into fs, which is sorted newest first, behind every element that is
\* not older than f (the sort is stable)
RECURSIVE insertNewestFirst(_, _)
insertNewestFirst(fs, f) ==
    IF fs = <<>> THEN <<f>>
    ELSE IF sortTime(f) - sortTime(Head(fs)) > 0 THEN <<f>> \o fs
    ELSE <<Head(fs)>> \o insertNewestFirst(Tail(fs), f)

\* matches.sort((a, b) => bTime - aTime)
RECURSIVE sortNewestFirst(_)
sortNewestFirst(fs) ==
    IF fs = <<>> THEN <<>>
    ELSE insertNewestFirst(sortNewestFirst(SubSeq(fs, 1, Len(fs) - 1)), fs[Len(fs)])

RECURSIVE matchesOf(_, _, _)
matchesOf(fs, options, fileNameType) ==
    IF fs = <<>> THEN <<>>
    ELSE IF doesFileNameMatch(Head(fs), options, fileNameType)
         THEN <<Head(fs)>> \o matchesOf(Tail(fs), options, fileNameType)
    ELSE matchesOf(Tail(fs), options, fileNameType)

\* <<>> for null, else <<file>>
findBestMatch(fs, options, fileNameType) ==
    LET matches == matchesOf(fs, options, fileNameType) IN
    IF Len(matches) = 0 THEN <<>>
    ELSE IF Len(matches) = 1 THEN <<matches[1]>>
    ELSE <<sortNewestFirst(matches)[1]>>

----------------------------------------------------------------------------
(* UniversalFileClient *)

Done(ok, err, val) == [done |-> TRUE, ok |-> ok, err |-> err, val |-> val]

Running == [done |-> FALSE, ok |-> FALSE, err |-> NoErr, val |-> <<>>]

NotConnected == <<"Not connected to any server">>

\* one invocation of a handler method, as recorded in calls
Call(h, m, r) == [h |-> h, m |-> m, ok |-> r.ok, err |-> r.err, val |-> r.val]

\* the adapter class the switch of connect() constructs for a tag
AdapterKindFor(tag) ==
    CASE tag \in {"ftp", "ftps"}   -> "ftp"
      [] tag = "sftp"              -> "sftp"
      [] tag \in {"http", "https"} -> "http"

\* a connect() that keeps the config of the connection it replaces
connectAssignsKeepsConfig(config, tag, n) ==
    [adapter |-> n, protocol |-> tag,
     connectionConfig |-> IF connectionConfig = <<>> THEN <<config>> ELSE connectionConfig]

\* the fields connect() assigns once detect has returned tag, the new
\* adapter being the n-th constructed
connectAssigns(config, tag, n) ==
    [adapter |-> n, protocol |-> tag, connectionConfig |-> <<config>>]

\* the fields after a failed adapter.connect: connect() has no handler for
\* the rejection, so the assignments made before the await stand
connectRejected(assigned) == assigned

\* connect(config), in the three ways it can run: rejected before any
\* assignment (no host, or detect throws), or the fields assigned, a new
\* adapter constructed and its connect awaited, which succeeds or throws.
connect(config) ==
    LET d == detect(config.host, <<>>) IN
    /\ op' = "connect"
    /\ arg' = <<config>>
    /\ sleeps' = <<>>
    /\ UNCHANGED <<pc, dl>>
    /\ IF config.host = <<>>
       THEN /\ outcome' = Done(FALSE, <<"Host is required for connection">>, <<>>)
            /\ calls' = <<>>
            /\ UNCHANGED <<adapter, protocol, connectionConfig, handlers>>
       ELSE IF ~d.ok
       THEN /\ outcome' = Done(FALSE, d.err, <<>>)
            /\ calls' = <<>>
            /\ UNCHANGED <<adapter, protocol, connectionConfig, handlers>>
       ELSE /\ Len(handlers) < MaxHandlers
            /\ \E r \in AdapterConnect(NewAdapter(AdapterKindFor(d.tag)), config) :
                 LET assigned == connectAssigns(config, d.tag, Len(handlers) + 1)
                     f == IF r.ok THEN assigned ELSE connectRejected(assigned)
                 IN  /\ adapter' = f.adapter
                     /\ protocol' = f.protocol
                     /\ connectionConfig' = f.connectionConfig
                     /\ handlers' = Append(handlers, r.h)
                     /\ calls' = << Call(Len(handlers) + 1, "connect",
                                         [ok |-> r.ok, err |-> r.err, val |-> <<r.secure>>]) >>
                     /\ outcome' = Done(r.ok, r.err, <<>>)

\* a disconnect() that clears the handler reference alone
disconnectClearsAdapterOnly ==
    [adapter |-> 0, protocol |-> protocol, connectionConfig |-> connectionConfig]

\* the fields once adapter.disconnect() has returned
disconnectClears ==
    [adapter |-> 0, protocol |-> "null", connectionConfig |-> <<>>]

\* the fields when adapter.disconnect() throws: the three assignments that
\* follow the await are skipped
disconnectRejected ==
    [adapter |-> adapter, protocol |-> protocol, connectionConfig |-> connectionConfig]

\* disconnect(): a no-op without an adapter; otherwise the adapter's
\* disconnect is awaited and, when it returns, the three fields are cleared.
disconnect ==
    /\ op' = "disconnect"
    /\ arg' = <<>>
    /\ sleeps' = <<>>
    /\ UNCHANGED <<pc, dl>>
    /\ IF adapter = 0
       THEN /\ outcome' = Done(TRUE, NoErr, <<>>)
            /\ calls' = <<>>
            /\ UNCHANGED <<adapter, protocol, connectionConfig, handlers>>
       ELSE \E r \in AdapterDisconnect(handlers[adapter]) :
              LET f == IF r.ok THEN disconnectClears ELSE disconnectRejected
              IN  /\ handlers' = [handlers EXCEPT ![adapter] = r.h]
                  /\ calls' = << Call(adapter, "disconnect", [ok |-> r.ok, err |-> r.err, val |-> <<>>]) >>
                  /\ outcome' = Done(r.ok, r.err, <<>>)
                  /\ adapter' = f.adapter
                  /\ protocol' = f.protocol
                  /\ connectionConfig' = f.connectionConfig

getProtocol == protocol

getConnectionConfig == connectionConfig

isConnected == adapter # 0

----------------------------------------------------------------------------
(* UniversalFileClient: list *)

\* files.filter(file => !file.isDirectory)
RECURSIVE withoutDirectories(_)
withoutDirectories(fs) ==
    IF fs = <<>> THEN <<>>
    ELSE IF ~Head(fs).isDirectory THEN <<Head(fs)>> \o withoutDirectories(Tail(fs))
    ELSE withoutDirectories(Tail(fs))

\* a list() that ignores options.includeDirectories
listResultAlwaysFilters(fs, includeDirectories) == withoutDirectories(fs)

\* what list() returns for the handler's listing fs
listResult(fs, includeDirectories) ==
    IF ~includeDirectories THEN withoutDirectories(fs) ELSE fs

\* a list() whose adapter check stands inside the try block, so that its
\* error is wrapped like a handler's
listRunsGuardInsideTry(pathArg, includeDirectories) ==
    IF adapter = 0
    THEN { [res |-> Done(FALSE, <<"Failed to list directory: ">> \o NotConnected, <<>>),
            calls |-> <<>>] }
    ELSE { [res |-> IF r.ok
                    THEN Done(TRUE, NoErr, << listResult(r.val[1], includeDirectories) >>)
                    ELSE Done(FALSE, <<"Failed to list directory: ">> \o r.err, <<>>),
            calls |-> << Call(adapter, "list", r) >>]
           : r \in AdapterList(handlers[adapter]) }

\* A run of a method is [res, calls]: how it ends and the handler methods it
\* invoked.  The ways list() can run:
listRuns(pathArg, includeDirectories) ==
    IF adapter = 0 THEN { [res |-> Done(FALSE, NotConnected, <<>>), calls |-> <<>>] }
    ELSE { [res |-> IF r.ok
                    THEN Done(TRUE, NoErr, << listResult(r.val[1], includeDirectories) >>)
                    ELSE Done(FALSE, <<"Failed to list directory: ">> \o r.err, <<>>),
            calls |-> << Call(adapter, "list", r) >>]
           : r \in AdapterList(handlers[adapter]) }

list(pathArg, includeDirectories) ==
    /\ op' = "list"
    /\ arg' = <<pathArg, includeDirectories>>
    /\ sleeps' = <<>>
    /\ UNCHANGED <<adapter, protocol, connectionConfig, handlers, pc, dl>>
    /\ \E x \in listRuns(pathArg, includeDirectories) :
         outcome' = x.res /\ calls' = x.calls

----------------------------------------------------------------------------
(* UniversalFileClient: download *)

DefaultRetries == 3

DefaultRetryDelay == 1000

\* `options.retries || 3`: an omitted option (<<>>) and 0 are both falsy
retriesOf(retriesOpt) ==
    IF retriesOpt = <<>> \/ retriesOpt[1] = 0 THEN DefaultRetries ELSE retriesOpt[1]

\* `options.retryDelay || 1000`
retryDelayOf(delayOpt) ==
    IF delayOpt = <<>> \/ delayOpt[1] = 0 THEN DefaultRetryDelay ELSE delayOpt[1]

RECURSIVE Pow2(_)
Pow2(n) == IF n = 0 THEN 1 ELSE 2 * Pow2(n - 1)

\* the delay slept after failed attempt number attempt
backoff(retryDelay, attempt) == retryDelay * Pow2(attempt)

\* the locals of download() (retries, retryDelay, attempt) while no download
\* is running
NoDownload == [retries |-> 0, retryDelay |-> 0, attempt |-> 0]

\* download() up to the first evaluation of the loop condition
downloadStart(remotePath, retriesOpt, delayOpt) ==
    /\ op' = "download"
    /\ arg' = <<remotePath, retriesOpt, delayOpt>>
    /\ sleeps' = <<>>
    /\ calls' = <<>>
    /\ UNCHANGED <<adapter, protocol, connectionConfig, handlers>>
    /\ IF adapter = 0
       THEN /\ outcome' = Done(FALSE, NotConnected, <<>>)
            /\ UNCHANGED <<pc, dl>>
       ELSE IF 0 <= retriesOf(retriesOpt)
            THEN /\ dl' = [retries |-> retriesOf(retriesOpt),
                           retryDelay |-> retryDelayOf(delayOpt), attempt |-> 0]
                 /\ pc' = "try"
                 /\ outcome' = Running
            ELSE /\ dl' = NoDownload
                 /\ pc' = "idle"
                 /\ outcome' = Done(FALSE, <<"Download failed after all retries">>, <<>>)

\* a loop body that goes round again after a successful attempt too
attemptStepUsesAllAttempts(r, attempt, retries) ==
    IF attempt = retries THEN (IF r.ok THEN "return" ELSE "throw")
    ELSE "sleep"

\* what the loop body does with the handler's outcome r on attempt number
\* attempt: return the value, rethrow the error, or sleep and go round again
attemptStep(r, attempt, retries) ==
    IF r.ok THEN "return"
    ELSE IF attempt = retries THEN "throw"
    ELSE "sleep"

\* a download() that rejects with the generic error of its last line
rethrowGeneric(error) == Done(FALSE, <<"Download failed after all retries">>, <<>>)

\* `throw error`: download() rejects with the error it caught
rethrow(error) == Done(FALSE, error, <<>>)

\* a loop body that calls the handler of the first attempt on every pass
downloadAttemptOnFirstHandler ==
    LET target == IF calls # <<>> THEN calls[1].h ELSE adapter IN
    /\ pc = "try"
    /\ UNCHANGED <<adapter, protocol, connectionConfig, handlers, op, arg>>
    /\ \E r \in (IF target = 0 THEN { Err(<<"TypeError">>) }
                 ELSE AdapterDownload(handlers[target])) :
         /\ calls' = IF target = 0 THEN calls ELSE Append(calls, Call(target, "download", r))
         /\ CASE attemptStep(r, dl.attempt, dl.retries) = "return" ->
                   /\ outcome' = Done(TRUE, NoErr, r.val)
                   /\ pc' = "idle"
                   /\ dl' = NoDownload
                   /\ UNCHANGED sleeps
              [] attemptStep(r, dl.attempt, dl.retries) = "throw" ->
                   /\ outcome' = rethrow(r.err)
                   /\ pc' = "idle"
                   /\ dl' = NoDownload
                   /\ UNCHANGED sleeps
              [] attemptStep(r, dl.attempt, dl.retries) = "sleep" ->
                   /\ sleeps' = Append(sleeps, backoff(dl.retryDelay, dl.attempt))
                   /\ pc' = "sleep"
                   /\ UNCHANGED <<outcome, dl>>

\* one pass through the loop body: the handler's download is awaited; its
\* value is returned, or its error rethrown on the last attempt, or the
\* backoff sleep started.  `this.adapter` is read anew on every pass; a null
\* adapter makes the call a TypeError inside the try block.
downloadAttempt ==
    /\ pc = "try"
    /\ UNCHANGED <<adapter, protocol, connectionConfig, handlers, op, arg>>
    /\ \E r \in (IF adapter = 0 THEN { Err(<<"TypeError">>) }
                 ELSE AdapterDownload(handlers[adapter])) :
         /\ calls' = IF adapter = 0 THEN calls ELSE Append(calls, Call(adapter, "download", r))
         /\ CASE attemptStep(r, dl.attempt, dl.retries) = "return" ->
                   /\ outcome' = Done(TRUE, NoErr, r.val)
                   /\ pc' = "idle"
                   /\ dl' = NoDownload
                   /\ UNCHANGED sleeps
              [] attemptStep(r, dl.attempt, dl.retries) = "throw" ->
                   /\ outcome' = rethrow(r.err)
                   /\ pc' = "idle"
                   /\ dl' = NoDownload
                   /\ UNCHANGED sleeps
              [] attemptStep(r, dl.attempt, dl.retries) = "sleep" ->
                   /\ sleeps' = Append(sleeps, backoff(dl.retryDelay, dl.attempt))
                   /\ pc' = "sleep"
                   /\ UNCHANGED <<outcome, dl>>

\* the timer of sleep() fires: attempt++ and the loop condition again
downloadWake ==
    /\ pc = "sleep"
    /\ UNCHANGED <<adapter, protocol, connectionConfig, handlers, op, arg, calls,
                   sleeps>>
    /\ IF dl.attempt + 1 <= dl.retries
       THEN /\ dl' = [dl EXCEPT !.attempt = @ + 1]
            /\ pc' = "try"
            /\ UNCHANGED outcome
       ELSE /\ dl' = NoDownload
            /\ pc' = "idle"
            /\ outcome' = Done(FALSE, <<"Download failed after all retries">>, <<>>)

----------------------------------------------------------------------------
(* UniversalFileClient: upload, stat, exists, lastModified *)

\* an upload() that drops the handler reference when the handler's upload
\* fails
uploadDropsHandler(localPath, remotePath) ==
    /\ op' = "upload"
    /\ arg' = <<localPath, remotePath>>
    /\ sleeps' = <<>>
    /\ UNCHANGED <<protocol, connectionConfig, handlers, pc, dl>>
    /\ IF adapter = 0
       THEN /\ outcome' = Done(FALSE, NotConnected, <<>>)
            /\ calls' = <<>>
            /\ UNCHANGED adapter
       ELSE IF localPath = <<>> \/ remotePath = <<>>
       THEN /\ outcome' = Done(FALSE,
                               <<"Both local and remote paths are required for upload">>, <<>>)
            /\ calls' = <<>>
            /\ UNCHANGED adapter
       ELSE \E r \in AdapterUpload(handlers[adapter]) :
            /\ calls' = << Call(adapter, "upload", r) >>
            /\ adapter' = IF r.ok THEN adapter ELSE 0
            /\ outcome' = IF r.ok THEN Done(TRUE, NoErr, <<>>)
                          ELSE Done(FALSE, <<"Failed to upload file: ">> \o r.err, <<>>)

upload(localPath, remotePath) ==
    /\ op' = "upload"
    /\ arg' = <<localPath, remotePath>>
    /\ sleeps' = <<>>
    /\ UNCHANGED <<adapter, protocol, connectionConfig, handlers, pc, dl>>
    /\ IF adapter = 0
       THEN /\ outcome' = Done(FALSE, NotConnected, <<>>)
            /\ calls' = <<>>
       ELSE IF localPath = <<>> \/ remotePath = <<>>
       THEN /\ outcome' = Done(FALSE,
                               <<"Both local and remote paths are required for upload">>, <<>>)
            /\ calls' = <<>>
       ELSE \E r \in AdapterUpload(handlers[adapter]) :
            /\ calls' = << Call(adapter, "upload", r) >>
            /\ outcome' = IF r.ok THEN Done(TRUE, NoErr, <<>>)
                          ELSE Done(FALSE, <<"Failed to upload file: ">> \o r.err, <<>>)

\* a stat() without the check of its argument
statRunsNoPathCheck(filePath) ==
    IF adapter = 0 THEN { [res |-> Done(FALSE, NotConnected, <<>>), calls |-> <<>>] }
    ELSE { [res |-> IF r.ok THEN Done(TRUE, NoErr, r.val)
                    ELSE Done(FALSE, <<"Failed to get file stats: ">> \o r.err, <<>>),
            calls |-> << Call(adapter, "stat", r) >>]
           : r \in AdapterStat(handlers[adapter], filePath) }

statRuns(filePath) ==
    IF adapter = 0 THEN { [res |-> Done(FALSE, NotConnected, <<>>), calls |-> <<>>] }
    ELSE IF filePath = <<>>
    THEN { [res |-> Done(FALSE, <<"File path is required for stat operation">>, <<>>),
            calls |-> <<>>] }
    ELSE { [res |-> IF r.ok THEN Done(TRUE, NoErr, r.val)
                    ELSE Done(FALSE, <<"Failed to get file stats: ">> \o r.err, <<>>),
            calls |-> << Call(adapter, "stat", r) >>]
           : r \in AdapterStat(handlers[adapter], filePath) }

stat(filePath) ==
    /\ op' = "stat"
    /\ arg' = <<filePath>>
    /\ sleeps' = <<>>
    /\ UNCHANGED <<adapter, protocol, connectionConfig, handlers, pc, dl>>
    /\ \E x \in statRuns(filePath) :
         outcome' = x.res /\ calls' = x.calls

\* an exists() that rethrows the handler's error, wrapped
existsCatchRethrows(error) == Done(FALSE, <<"Failed to check existence: ">> \o error, <<>>)

\* the catch block of exists(): whatever the error, the answer is false
existsCatch(error) == Done(TRUE, NoErr, <<FALSE>>)

exists(filePath) ==
    /\ op' = "exists"
    /\ arg' = <<filePath>>
    /\ sleeps' = <<>>
    /\ UNCHANGED <<adapter, protocol, connectionConfig, handlers, pc, dl>>
    /\ IF adapter = 0
       THEN /\ outcome' = Done(FALSE, NotConnected, <<>>)
            /\ calls' = <<>>
       ELSE IF filePath = <<>>
       THEN /\ outcome' = Done(FALSE, <<"File path is required for exists check">>, <<>>)
            /\ calls' = <<>>
       ELSE \E r \in AdapterExists(handlers[adapter], filePath) :
            /\ calls' = << Call(adapter, "exists", r) >>
            /\ outcome' = IF r.ok THEN Done(TRUE, NoErr, r.val)
                          ELSE existsCatch(r.err)

\* no try block: the handler's error is passed on as it is
lastModified(filePath) ==
    /\ op' = "lastModified"
    /\ arg' = <<filePath>>
    /\ sleeps' = <<>>
    /\ UNCHANGED <<adapter, protocol, connectionConfig, handlers, pc, dl>>
    /\ IF adapter = 0
       THEN /\ outcome' = Done(FALSE, NotConnected, <<>>)
            /\ calls' = <<>>
       ELSE \E r \in AdapterLastModified(handlers[adapter], filePath) :
            /\ calls' = << Call(adapter, "lastModified", r) >>
            /\ outcome' = IF r.ok THEN Done(TRUE, NoErr, r.val)
                          ELSE Done(FALSE, r.err, <<>>)

----------------------------------------------------------------------------
(* UniversalFileClient: findFile, checkForUpdates *)

\* findFile() once stat has answered null: the parent directory is listed
\* with the default options and the best match looked up
findFileByListing(targetPath, fileNameType, statCalls) ==
    LET dirPath == PathDirname(targetPath)
        matchOptions == [basename |-> PathName(targetPath), filepath |-> targetPath,
                         extname |-> PathExt(targetPath)]
    IN  { LET matchedFile == IF l.res.ok
                             THEN findBestMatch(l.res.val[1], matchOptions, fileNameType)
                             ELSE <<>>
          IN  [res |-> IF ~l.res.ok
                       THEN Done(FALSE, <<"Failed to find file: ">> \o l.res.err, <<>>)
                       ELSE IF matchedFile # <<>>
                       THEN Done(TRUE, NoErr,
                                 << [file |-> matchedFile[1],
                                     actualPath |-> PathJoin(dirPath, matchedFile[1].name)] >>)
                       ELSE Done(TRUE, NoErr, <<>>),
               calls |-> statCalls \o l.calls]
          : l \in listRuns(dirPath, FALSE) }

\* a findFile() that lists the parent directory whatever stat answered
findFileRunsAlwaysLists(targetPath, fileNameType) ==
    IF adapter = 0 THEN { [res |-> Done(FALSE, NotConnected, <<>>), calls |-> <<>>] }
    ELSE UNION {
           IF ~s.res.ok
           THEN { [res |-> Done(FALSE, <<"Failed to find file: ">> \o s.res.err, <<>>),
                   calls |-> s.calls] }
           ELSE findFileByListing(targetPath, fileNameType, s.calls)
           : s \in statRuns(targetPath) }

\* the ways findFile() can run; its value is <<>> for null, else
\* <<[file, actualPath]>>
findFileRuns(targetPath, fileNameType) ==
    IF adapter = 0 THEN { [res |-> Done(FALSE, NotConnected, <<>>), calls |-> <<>>] }
    ELSE UNION {
           IF ~s.res.ok
           THEN { [res |-> Done(FALSE, <<"Failed to find file: ">> \o s.res.err, <<>>),
                   calls |-> s.calls] }
           ELSE IF s.res.val # <<>>
           THEN { [res |-> Done(TRUE, NoErr,
                                << [file |-> s.res.val[1], actualPath |-> targetPath] >>),
                   calls |-> s.calls] }
           ELSE findFileByListing(targetPath, fileNameType, s.calls)
           : s \in statRuns(targetPath) }

findFile(targetPath, fileNameType) ==
    /\ op' = "findFile"
    /\ arg' = <<targetPath, fileNameType>>
    /\ sleeps' = <<>>
    /\ UNCHANGED <<adapter, protocol, connectionConfig, handlers, pc, dl>>
    /\ \E x \in findFileRuns(targetPath, fileNameType) :
         outcome' = x.res /\ calls' = x.calls

\* the value of checkForUpdates: file and actualPath are <<>> when not set
Update(hasUpdate, file, actualPath) ==
    [hasUpdate |-> hasUpdate, file |-> file, actualPath |-> actualPath]

\* a checkForUpdates() that compares the timestamps of JSON resources too
checkFoundJsonByDate(found, lastKnownDate, findCalls) ==
    IF protocol \in {"http", "https"}
    THEN { [res |-> IF ~g.ok THEN Done(FALSE, g.err, <<>>)
                    ELSE IF g.val[1].lastModified = <<>>
                    THEN Done(TRUE, NoErr,
                              << Update(FALSE, <<found.file>>, <<found.actualPath>>) >>)
                    ELSE Done(TRUE, NoErr,
                              << Update(g.val[1].lastModified[1] > lastKnownDate,
                                        <<found.file>>, <<found.actualPath>>) >>),
            calls |-> Append(findCalls, Call(adapter, "getFileInfo", g))]
           : g \in AdapterGetFileInfo(handlers[adapter]) }
    ELSE { [res |-> Done(TRUE, NoErr,
                         << Update(found.file.date > lastKnownDate,
                                   <<found.file>>, <<found.actualPath>>) >>),
            calls |-> findCalls] }

\* a checkForUpdates() for which an equal timestamp is an update
checkFoundNotEarlier(found, lastKnownDate, findCalls) ==
    IF protocol \in {"http", "https"}
    THEN { [res |-> IF ~g.ok THEN Done(FALSE, g.err, <<>>)
                    ELSE IF g.val[1].isJson
                    THEN Done(TRUE, NoErr,
                              << Update(TRUE, <<found.file>>, <<found.actualPath>>) >>)
                    ELSE IF g.val[1].lastModified = <<>>
                    THEN Done(TRUE, NoErr,
                              << Update(FALSE, <<found.file>>, <<found.actualPath>>) >>)
                    ELSE Done(TRUE, NoErr,
                              << Update(g.val[1].lastModified[1] >= lastKnownDate,
                                        <<found.file>>, <<found.actualPath>>) >>),
            calls |-> Append(findCalls, Call(adapter, "getFileInfo", g))]
           : g \in AdapterGetFileInfo(handlers[adapter]) }
    ELSE { [res |-> Done(TRUE, NoErr,
                         << Update(found.file.date >= lastKnownDate,
                                   <<found.file>>, <<found.actualPath>>) >>),
            calls |-> findCalls] }

\* checkForUpdates() once findFile has returned found = [file, actualPath]
checkFound(found, lastKnownDate, findCalls) ==
    IF protocol \in {"http", "https"}
    THEN { [res |-> IF ~g.ok THEN Done(FALSE, g.err, <<>>)
                    ELSE IF g.val[1].isJson
                    THEN Done(TRUE, NoErr,
                              << Update(TRUE, <<found.file>>, <<found.actualPath>>) >>)
                    ELSE IF g.val[1].lastModified = <<>>
                    THEN Done(TRUE, NoErr,
                              << Update(FALSE, <<found.file>>, <<found.actualPath>>) >>)
                    ELSE Done(TRUE, NoErr,
                              << Update(g.val[1].lastModified[1] > lastKnownDate,
                                        <<found.file>>, <<found.actualPath>>) >>),
            calls |-> Append(findCalls, Call(adapter, "getFileInfo", g))]
           : g \in AdapterGetFileInfo(handlers[adapter]) }
    ELSE { [res |-> Done(TRUE, NoErr,
                         << Update(found.file.date > lastKnownDate,
                                   <<found.file>>, <<found.actualPath>>) >>),
            calls |-> findCalls] }

checkForUpdatesRuns(filePath, lastKnownDate, fileNameType) ==
    UNION { IF ~f.res.ok THEN { f }
            ELSE IF f.res.val = <<>>
            THEN { [res |-> Done(TRUE, NoErr, << Update(FALSE, <<>>, <<>>) >>),
                    calls |-> f.calls] }
            ELSE checkFound(f.res.val[1], lastKnownDate, f.calls)
            : f \in findFileRuns(filePath, fileNameType) }

checkForUpdates(filePath, lastKnownDate, fileNameType) ==
    /\ op' = "checkForUpdates"
    /\ arg' = <<filePath, lastKnownDate, fileNameType>>
    /\ sleeps' = <<>>
    /\ UNCHANGED <<adapter, protocol, connectionConfig, handlers, pc, dl>>
    /\ \E x \in checkForUpdatesRuns(filePath, lastKnownDate, fileNameType) :
         outcome' = x.res /\ calls' = x.calls

----------------------------------------------------------------------------
(* Inputs of the data operations *)

FileNameTypes == {"exact", "prefix", "regex", "smart"}

\* the strategies the Client is called with: the default and one other
ClientNameTypes == {"smart", "exact"}

\* the lastKnownDate the Client is called with: the remote side reports
\* times before it, equal to it and after it
LastKnownDates == {1}

pA == <<"a", ".", "t">>

Paths == { <<>>, pA }

\* the largest retries option a caller passes
MaxRetries == 2

----------------------------------------------------------------------------
(* Specification *)

Init ==
    /\ adapter = 0
    /\ protocol = "null"
    /\ connectionConfig = <<>>
    /\ handlers = <<>>
    /\ pc = "idle"
    /\ op = "new"
    /\ arg = <<>>
    /\ outcome = Done(TRUE, NoErr, <<>>)
    /\ calls = <<>>
    /\ sleeps = <<>>
    /\ dl = NoDownload

Connect == pc = "idle" /\ \E config \in Configs : connect(config)

Disconnect == pc = "idle" /\ disconnect

List == pc = "idle" /\ \E inc \in BOOLEAN : list(pA, inc)

\* download(remotePath) with the options omitted
DownloadStart == pc = "idle" /\ downloadStart(pA, <<>>, <<>>)

DownloadAttempt == downloadAttempt

DownloadWake == downloadWake

Upload == pc = "idle" /\ \E l \in Paths, r \in Paths : upload(l, r)

Stat == pc = "idle" /\ \E p \in Paths : stat(p)

Exists == pc = "idle" /\ \E p \in Paths : exists(p)

LastModified == pc = "idle" /\ \E p \in Paths : lastModified(p)

FindFile == pc = "idle" /\ \E p \in Paths, t \in ClientNameTypes : findFile(p, t)

CheckForUpdates ==
    pc = "idle" /\ \E p \in Paths, d \in LastKnownDates, t \in ClientNameTypes :
                     checkForUpdates(p, d, t)

Next ==
    \/ Connect
    \/ Disconnect
    \/ List
    \/ DownloadStart
    \/ DownloadAttempt
    \/ DownloadWake
    \/ Upload
    \/ Stat
    \/ Exists
    \/ LastModified
    \/ FindFile
    \/ CheckForUpdates

Spec == Init /\ [][Next]_vars

----------------------------------------------------------------------------
(* Specification of the download retry loop: a Client on which connect()   *)
(* was called at most once, and download() with every option value.        *)

InitRetry ==
    /\ pc = "idle"
    /\ dl = NoDownload
    /\ sleeps = <<>>
    /\ \/ /\ adapter = 0
          /\ protocol = "null"
          /\ connectionConfig = <<>>
          /\ handlers = <<>>
          /\ op = "new"
          /\ arg = <<>>
          /\ outcome = Done(TRUE, NoErr, <<>>)
          /\ calls = <<>>
       \/ \E config \in Configs :
            LET d == detect(config.host, <<>>) IN
            /\ config.host # <<>>
            /\ d.ok
            /\ \E r \in AdapterConnect(NewAdapter(AdapterKindFor(d.tag)), config) :
                 LET assigned == connectAssigns(config, d.tag, 1)
                     f == IF r.ok THEN assigned ELSE connectRejected(assigned)
                 IN  /\ adapter = f.adapter
                     /\ protocol = f.protocol
                     /\ connectionConfig = f.connectionConfig
                     /\ handlers = <<r.h>>
                     /\ op = "connect"
                     /\ arg = <<config>>
                     /\ calls = << Call(1, "connect",
                                        [ok |-> r.ok, err |-> r.err, val |-> <<r.secure>>]) >>
                     /\ outcome = Done(r.ok, r.err, <<>>)

\* download(remotePath, options) with the retries option omitted and from -1
\* to MaxRetries, and the retryDelay option omitted, 0 and two delays
DownloadWithOptions ==
    LET RetriesOpts == { <<>> } \cup { <<n>> : n \in (-1)..MaxRetries }
        DelayOpts == { <<>>, <<0>>, <<1>>, <<250>> }
    IN  pc = "idle" /\ \E ro \in RetriesOpts, do \in DelayOpts : downloadStart(pA, ro, do)

NextRetry ==
    \/ DownloadWithOptions
    \/ DownloadAttempt
    \/ DownloadWake

SpecRetry == InitRetry /\ [][NextRetry]_vars

----------------------------------------------------------------------------
(* Specification of findFile() and checkForUpdates(): a Client on which    *)
(* connect() was called at most once, every strategy, every lastKnownDate  *)
(* among the times the remote side reports, a path with and without a      *)
(* directory.                                                               *)

pDA == <<"d", "/", "a", ".", "t">>

FindPaths == Paths \cup { pDA }

FindFileAny ==
    pc = "idle" /\ \E p \in FindPaths, t \in FileNameTypes : findFile(p, t)

CheckForUpdatesAny ==
    pc = "idle" /\ \E p \in FindPaths, d \in Times, t \in FileNameTypes :
                     checkForUpdates(p, d, t)

NextFind ==
    \/ FindFileAny
    \/ CheckForUpdatesAny

SpecFind == InitRetry /\ [][NextFind]_vars

----------------------------------------------------------------------------
(* Specification of list() over a handler that answers any listing: the    *)
(* Client of the unit tests, whose adapter field holds a mock adapter      *)
(* while protocol and connectionConfig are still null.                     *)

InitList ==
    /\ adapter = 1
    /\ protocol = "null"
    /\ connectionConfig = <<>>
    /\ handlers = << [kind |-> "mock", isConnected |-> TRUE, open |-> FALSE] >>
    /\ pc = "idle"
    /\ op = "new"
    /\ arg = <<>>
    /\ outcome = Done(TRUE, NoErr, <<>>)
    /\ calls = <<>>
    /\ sleeps = <<>>
    /\ dl = NoDownload

NextList == List

SpecList == InitList /\ [][NextList]_vars

----------------------------------------------------------------------------
(* Specification of the ProtocolDetector and of connect() by host string:  *)
(* a host and a mode hint are drawn, then detect, normalizeHost or, on a    *)
(* new Client or one connected over sftp, connect is called once with it.  *)

\* the largest number of parts of the remainder of a host string
MaxParts == 2

\* remainders of a host string: up to n parts, each a host name, a colon,
\* "://" or a tag
RECURSIVE DetectRemainders(_)
DetectRemainders(n) ==
    IF n = 0 THEN { <<>> }
    ELSE DetectRemainders(n - 1)
         \cup { r \o t : r \in DetectRemainders(n - 1),
                         t \in { sH, sColon, sSep, sFTP, sFTPS, sSFTP, sHTTP } }

\* host strings: a scheme prefix of either form for each tag, an unknown
\* scheme or no prefix, then a remainder
DetectHosts ==
    { p \o r : p \in { TagChars(t) \o sep : t \in Tags, sep \in {sSep, sColon} }
                     \cup { <<"g">> \o sSep, <<"F", "T", "P">> \o sSep, <<>> },
               r \in DetectRemainders(MaxParts) }

\* mode hints: omitted, each tag, and no tag
DetectHints == { <<>>, <<"x">> } \cup { TagChars(t) : t \in Tags }

InitDetect ==
    /\ pc = "idle"
    /\ dl = NoDownload
    /\ sleeps = <<>>
    /\ calls = <<>>
    /\ outcome = Done(TRUE, NoErr, <<>>)
    /\ op = "input"
    /\ \E host \in DetectHosts, hint \in DetectHints : arg = <<host, hint>>
    /\ \/ /\ adapter = 0
          /\ protocol = "null"
          /\ connectionConfig = <<>>
          /\ handlers = <<>>
       \/ LET config == [host |-> sSFTP \o sSep \o sH, secure |-> FALSE,
                         directoryPath |-> <<>>]
              assigned == connectAssigns(config, "sftp", 1)
          IN  /\ adapter = assigned.adapter
              /\ protocol = assigned.protocol
              /\ connectionConfig = assigned.connectionConfig
              /\ handlers = << [NewAdapter("sftp") EXCEPT !.isConnected = TRUE,
                                                          !.open = TRUE] >>

\* ProtocolDetector.detect(host, transferMode)
Detect ==
    /\ op = "input"
    /\ op' = "detect"
    /\ LET d == detect(arg[1], arg[2])
       IN  outcome' = Done(d.ok, d.err, IF d.ok THEN <<d.tag>> ELSE <<>>)
    /\ UNCHANGED <<adapter, protocol, connectionConfig, handlers, pc, arg, calls,
                   sleeps, dl>>

\* ProtocolDetector.normalizeHost(host)
NormalizeHost ==
    /\ op = "input"
    /\ arg[2] = <<>>
    /\ op' = "normalizeHost"
    /\ outcome' = Done(TRUE, NoErr, << normalizeHost(arg[1]) >>)
    /\ UNCHANGED <<adapter, protocol, connectionConfig, handlers, pc, arg, calls,
                   sleeps, dl>>

\* connect({host})
ConnectHost ==
    /\ op = "input"
    /\ arg[2] = <<>>
    /\ connect([host |-> arg[1], secure |-> FALSE, directoryPath |-> <<>>])

NextDetect ==
    \/ Detect
    \/ NormalizeHost
    \/ ConnectHost

SpecDetect == InitDetect /\ [][NextDetect]_vars

----------------------------------------------------------------------------
(* Specification of the FileMatcher: a file list, match options and a      *)
(* strategy are drawn, then doesFileNameMatch is called once on the first  *)
(* file of the list or findBestMatch once on the list.                     *)

InitMatch ==
    /\ adapter = 0
    /\ protocol = "null"
    /\ connectionConfig = <<>>
    /\ handlers = <<>>
    /\ pc = "idle"
    /\ dl = NoDownload
    /\ sleeps = <<>>
    /\ calls = <<>>
    /\ outcome = Done(TRUE, NoErr, <<>>)
    /\ op = "input"
    /\ LET \* FileInfo values a caller passes: names around the target "a.t",
           \* modifyTime present, 0 and absent, equal and different times
           files == { FileInfo(nA, FALSE, 1, <<1>>),
                      FileInfo(nA1, FALSE, 2, <<2>>),
                      FileInfo(nA1, FALSE, 2, <<0>>),
                      FileInfo(<<"A", ".", "t">>, FALSE, 1, <<>>),
                      FileInfo(<<"a", ".", "x">>, FALSE, 2, <<2>>),
                      FileInfo(<<"a", "b", ".", "T">>, FALSE, 2, <<>>),
                      FileInfo(<<"a", ".", "x", ".", "t">>, FALSE, 1, <<1>>),
                      FileInfo(<<"a", "-", "2", ".", "T">>, FALSE, 1, <<1>>) }
           \* options as findFile derives them from a target path
           parsed(targetPath) ==
               [basename |-> PathName(targetPath), filepath |-> targetPath,
                extname |-> PathExt(targetPath)]
           \* options a caller builds by hand: a double extension, a name
           \* holding a dot with no extension, a pattern, a pattern that does
           \* not compile
           built == { [basename |-> <<"a">>, filepath |-> <<"a", ".", "x", ".", "t">>,
                       extname |-> <<".", "x", ".", "t">>],
                      [basename |-> nA, filepath |-> nA, extname |-> <<>>],
                      [basename |-> <<"^", "a", ".", "*">>, filepath |-> <<"a">>,
                       extname |-> <<".", "t">>],
                      [basename |-> <<"a", "(">>, filepath |-> <<"a">>,
                       extname |-> <<".", "t">>] }
       IN  \E fs \in SeqsUpTo(files, MaxListLen),
              options \in { parsed(pA), parsed(pDA), parsed(nB) } \cup built,
              fileNameType \in FileNameTypes :
               arg = [files |-> fs, options |-> options, fileNameType |-> fileNameType]

\* FileMatcher.doesFileNameMatch(files[0], options, fileNameType)
DoesFileNameMatch ==
    /\ op = "input"
    /\ arg.files # <<>>
    /\ op' = "doesFileNameMatch"
    /\ outcome' = IF doesFileNameMatchThrows(arg.options, arg.fileNameType)
                  THEN Done(FALSE, <<"SyntaxError">>, <<>>)
                  ELSE Done(TRUE, NoErr,
                            << doesFileNameMatch(arg.files[1], arg.options,
                                                 arg.fileNameType) >>)
    /\ UNCHANGED <<adapter, protocol, connectionConfig, handlers, pc, arg, calls,
                   sleeps, dl>>

\* FileMatcher.findBestMatch(files, options, fileNameType): the filter calls
\* doesFileNameMatch for every file, so an exception of it ends the call
FindBestMatch ==
    /\ op = "input"
    /\ op' = "findBestMatch"
    /\ outcome' = IF arg.files # <<>>
                     /\ doesFileNameMatchThrows(arg.options, arg.fileNameType)
                  THEN Done(FALSE, <<"SyntaxError">>, <<>>)
                  ELSE Done(TRUE, NoErr,
                            findBestMatch(arg.files, arg.options, arg.fileNameType))
    /\ UNCHANGED <<adapter, protocol, connectionConfig, handlers, pc, arg, calls,
                   sleeps, dl>>

NextMatch ==
    \/ DoesFileNameMatch
    \/ FindBestMatch

SpecMatch == InitMatch /\ [][NextMatch]_vars

----------------------------------------------------------------------------
(* Specification of a download during whose waits other calls complete:    *)
(* while download() awaits the timer of sleep(), a connect() or a          *)
(* disconnect() issued on the same Client runs to its end.  The history    *)
(* variables keep recording the download.                                  *)

\* connect(config) completing during the wait: the fields are assigned, a
\* new adapter is constructed and its connect succeeds or throws
ConnectWhileWaiting ==
    /\ pc = "sleep"
    /\ UNCHANGED <<pc, dl, op, arg, outcome, calls, sleeps>>
    /\ \E config \in Configs :
         LET d == detect(config.host, <<>>) IN
         /\ config.host # <<>>
         /\ d.ok
         /\ Len(handlers) < MaxHandlers
         /\ \E r \in AdapterConnect(NewAdapter(AdapterKindFor(d.tag)), config) :
              LET assigned == connectAssigns(config, d.tag, Len(handlers) + 1)
                  f == IF r.ok THEN assigned ELSE connectRejected(assigned)
              IN  /\ adapter' = f.adapter
                  /\ protocol' = f.protocol
                  /\ connectionConfig' = f.connectionConfig
                  /\ handlers' = Append(handlers, r.h)

\* disconnect() completing during the wait
DisconnectWhileWaiting ==
    /\ pc = "sleep"
    /\ adapter # 0
    /\ UNCHANGED <<pc, dl, op, arg, outcome, calls, sleeps>>
    /\ \E r \in AdapterDisconnect(handlers[adapter]) :
         LET f == IF r.ok THEN disconnectClears ELSE disconnectRejected
         IN  /\ handlers' = [handlers EXCEPT ![adapter] = r.h]
             /\ adapter' = f.adapter
             /\ protocol' = f.protocol
             /\ connectionConfig' = f.connectionConfig

NextWaiting ==
    \/ DownloadStart
    \/ DownloadAttempt
    \/ DownloadWake
    \/ ConnectWhileWaiting
    \/ DisconnectWhileWaiting

SpecWaiting == InitRetry /\ [][NextWaiting]_vars

----------------------------------------------------------------------------
(* Properties *)

\* C1: between calls of connect() and disconnect(), whether they succeeded or
\* failed, isConnected() is true iff the Client holds a handler reference, and
\* the protocol and the config are non-null exactly when it does: the three
\* fields are never partially set or partially cleared.
C1_FieldsSetTogether ==
    /\ isConnected <=> adapter # 0
    /\ getProtocol # "null" <=> adapter # 0
    /\ getConnectionConfig # <<>> <=> adapter # 0

\* a second connect() has replaced the handler and the disconnect() that
\* followed has cleared the three fields
C1_Witness ==
    /\ op = "disconnect"
    /\ outcome.ok
    /\ Len(handlers) = 2
    /\ adapter = 0 /\ protocol = "null" /\ connectionConfig = <<>>

\* C2: when the handler's own connect fails during connect(config), the
\* Client is left Disconnected: isConnected() is false and neither the
\* protocol tag nor the config of the failed attempt is stored.
C2_FailedConnectLeavesDisconnected ==
    (op = "connect" /\ calls # <<>> /\ ~outcome.ok)
        => /\ ~isConnected
           /\ getProtocol = "null"
           /\ getConnectionConfig # <<arg[1]>>

\* C3: disconnect() on a Connected Client always ends with the handler
\* reference, the protocol and the config cleared, also when the handler's
\* disconnect fails.
C3_DisconnectAlwaysClears ==
    (op = "disconnect" /\ outcome.done)
        => /\ ~isConnected
           /\ getProtocol = "null"
           /\ getConnectionConfig = <<>>

\* C4: after connect(config) has completed successfully, isConnected() is
\* true, getProtocol() is the tag the detector returns for config.host and
\* getConnectionConfig() is the config passed, whether the Client was
\* Disconnected or Connected before the call.
C4_ConnectStores ==
    (op = "connect" /\ outcome.ok)
        => /\ isConnected
           /\ getProtocol = detect(arg[1].host, <<>>).tag
           /\ getConnectionConfig = <<arg[1]>>
           /\ handlers[adapter].kind = AdapterKindFor(getProtocol)

\* a successful connect() on a Client whose previous handler was connected
C4_Witness ==
    /\ op = "connect"
    /\ outcome.ok
    /\ Len(handlers) = 2
    /\ adapter = 2
    /\ handlers[1].isConnected
    /\ getProtocol = "https"

\* the operations that need a connection
C_DataOps ==
    {"list", "download", "upload", "stat", "exists", "lastModified", "findFile",
     "checkForUpdates"}

\* C5: on a Client without a handler (initially and after disconnect()) each
\* of list, download, upload, stat, exists, lastModified, findFile and
\* checkForUpdates fails with 'Not connected to any server', having called
\* no handler method and waited for no retry delay.
C5_NotConnected ==
    (adapter = 0 /\ op \in C_DataOps)
        => /\ outcome = Done(FALSE, <<"Not connected to any server">>, <<>>)
           /\ calls = <<>>
           /\ sleeps = <<>>
           /\ pc = "idle"

\* checkForUpdates() on a Client that was connected and then disconnected
C5_Witness ==
    /\ adapter = 0
    /\ Len(handlers) = 1
    /\ ~handlers[1].isConnected
    /\ op = "checkForUpdates"
    /\ outcome.done /\ ~outcome.ok
    /\ outcome.err = <<"Not connected to any server">>
    /\ calls = <<>>

\* the retries option of the download in arg, 3 when it was omitted
C_RetriesGiven == IF arg[2] = <<>> THEN 3 ELSE arg[2][1]

\* the retryDelay option of the download in arg, 1000 when it was omitted
C_DelayGiven == IF arg[3] = <<>> THEN 1000 ELSE arg[3][1]

\* C6: for every non-negative retries option, 0 included, download calls the
\* handler's download at most retries + 1 times, and exactly retries + 1
\* times when every attempt fails; an omitted option means 3 retries.
C6_AttemptBudget ==
    (op = "download" /\ C_RetriesGiven >= 0)
        => /\ Len(calls) <= C_RetriesGiven + 1
           /\ (outcome.done /\ ~outcome.ok /\ adapter # 0)
                 => Len(calls) = C_RetriesGiven + 1

\* C7: when every attempt of a download fails, the caller receives exactly
\* the error of the last handler attempt: not wrapped, not an earlier
\* attempt's error, not a generic error.
C7_LastErrorUnwrapped ==
    (op = "download" /\ outcome.done /\ ~outcome.ok /\ calls # <<>>)
        => /\ \A i \in 1..Len(calls) : ~calls[i].ok
           /\ outcome.err = calls[Len(calls)].err

\* a download that failed on every attempt, the last error differing from
\* the first
C7_Witness ==
    /\ op = "download"
    /\ outcome.done /\ ~outcome.ok
    /\ Len(calls) = 4
    /\ calls[1].err # calls[4].err
    /\ outcome.err = <<"Failed to download file from SFTP: ", "e2">>

\* C8: as soon as an attempt succeeds download returns that attempt's payload
\* with no further handler call and no further wait: after k failed
\* attempts and a successful one the handler was called k + 1 times and the
\* result is the last call's.
C8_ReturnsFirstSuccess ==
    (op = "download" /\ outcome.done /\ outcome.ok)
        => /\ pc = "idle"
           /\ calls # <<>>
           /\ calls[Len(calls)].ok
           /\ outcome.val = calls[Len(calls)].val
           /\ \A i \in 1..(Len(calls) - 1) : ~calls[i].ok
           /\ Len(sleeps) = Len(calls) - 1

\* a download that succeeded on its third attempt with retries 2
C8_Witness ==
    /\ op = "download"
    /\ arg[2] = <<2>>
    /\ outcome.done /\ outcome.ok
    /\ Len(calls) = 3
    /\ outcome.val = <<"p2">>

\* C9: after failed attempt i (from 0) that is not the final one, download
\* waits retryDelay * 2^i ms before attempt i + 1, for every retryDelay the
\* caller supplies (1000 when omitted); nothing is waited before the first
\* attempt or after the final one.
C9_BackoffSchedule ==
    op = "download"
        => /\ \A i \in 1..Len(sleeps) : sleeps[i] = C_DelayGiven * Pow2(i - 1)
           /\ Len(sleeps) <= Len(calls)
           /\ outcome.done => Len(sleeps) = IF calls = <<>> THEN 0 ELSE Len(calls) - 1

\* C10: list() with default options returns exactly the entries of the
\* handler's listing that are not directories, in the handler's order; with
\* includeDirectories it returns the handler's listing unchanged.
C10_ListFilter ==
    (op = "list" /\ outcome.ok)
        => LET given == calls[1].val[1]
               got == outcome.val[1]
               isFile(f) == ~f.isDirectory
           IN  IF arg[2] THEN got = given ELSE got = SelectSeq(given, isFile)

\* a default list() that dropped a directory standing between two files
C10_Witness ==
    /\ op = "list"
    /\ outcome.ok
    /\ ~arg[2]
    /\ Len(calls[1].val[1]) = 3
    /\ calls[1].val[1][2].isDirectory
    /\ Len(outcome.val[1]) = 2
    /\ outcome.val[1][1] # outcome.val[1][2]

\* C11: on an FTP/FTPS or SFTP connection list(path, {includeDirectories:
\* true}) includes the directories of the remote directory: every entry the
\* transfer library reports, file or directory, appears in the result.
C11_ListIncludesDirectories ==
    (op = "list" /\ outcome.ok /\ arg[2] /\ protocol \in {"ftp", "ftps", "sftp"})
        => LET reported == calls[1].val[2]
               got == outcome.val[1]
           IN  \A i \in 1..Len(reported) :
                 \E j \in 1..Len(got) :
                   /\ got[j].name = reported[i].name
                   /\ got[j].isDirectory = (reported[i].type = "d")

\* the first handler call of the operation in op was a stat that found none
C_StatFoundNone ==
    /\ calls # <<>>
    /\ calls[1].m = "stat"
    /\ calls[1].ok
    /\ calls[1].val = <<>>

\* C12: findFile(targetPath) calls stat(targetPath) first; when stat finds
\* the file, findFile returns it with actualPath = targetPath and the parent
\* directory is never listed; the parent directory is listed only after stat
\* has reported none.
C12_StatShortCircuits ==
    (op = "findFile" /\ outcome.done)
        => /\ calls # <<>> => calls[1].m = "stat"
           /\ (calls # <<>> /\ calls[1].ok /\ calls[1].val # <<>>)
                 => /\ Len(calls) = 1
                    /\ outcome = Done(TRUE, NoErr,
                                       << [file |-> calls[1].val[1], actualPath |-> arg[1]] >>)
           /\ \A i \in 1..Len(calls) :
                 calls[i].m = "list" => (i = 2 /\ C_StatFoundNone)

\* findFile() over sftp whose stat found the file: one handler call
C12_Witness ==
    /\ op = "findFile"
    /\ protocol = "sftp"
    /\ outcome.ok
    /\ Len(calls) = 1
    /\ calls[1].val # <<>>
    /\ outcome.val[1].actualPath = pDA

\* C13: when stat(targetPath) yields none, findFile returns the matcher's
\* best match over the listing of the parent directory, with actualPath the
\* parent directory joined with the matched name, and none when nothing
\* matches, over each of the five protocols; it fails only when the transfer
\* library fails to list the directory.
C13_FallsBackToListing ==
    (op = "findFile" /\ outcome.done /\ C_StatFoundNone)
        => /\ Len(calls) = 2
           /\ calls[2].m = "list"
           /\ IF calls[2].ok
              THEN LET best == findBestMatch(calls[2].val[1],
                                             [basename |-> PathName(arg[1]),
                                              filepath |-> arg[1],
                                              extname |-> PathExt(arg[1])], arg[2])
                   IN  outcome =
                         IF best = <<>> THEN Done(TRUE, NoErr, <<>>)
                         ELSE Done(TRUE, NoErr,
                                   << [file |-> best[1],
                                       actualPath |-> PathJoin(PathDirname(arg[1]),
                                                               best[1].name)] >>)
              ELSE /\ ~outcome.ok
                   /\ Len(calls[2].err) = 2
                   /\ calls[2].err[2] \in LibErrors

\* the last handler call of the operation in op
C_LastCall == calls[Len(calls)]

\* C14: over http or https, checkForUpdates reports hasUpdate: true whenever
\* the probed content type is JSON, for every lastKnownDate and every
\* last-modified value: absent, older, equal or newer.
C14_JsonAlwaysUpdated ==
    (/\ op = "checkForUpdates"
     /\ protocol \in {"http", "https"}
     /\ calls # <<>>
     /\ C_LastCall.m = "getFileInfo"
     /\ C_LastCall.ok
     /\ C_LastCall.val[1].isJson)
        => /\ outcome.ok
           /\ outcome.val[1].hasUpdate

\* a JSON resource over https whose last-modified is older than lastKnownDate
C14_Witness ==
    /\ op = "checkForUpdates"
    /\ protocol = "https"
    /\ calls # <<>>
    /\ C_LastCall.m = "getFileInfo"
    /\ C_LastCall.val[1].isJson
    /\ C_LastCall.val[1].lastModified = <<0>>
    /\ arg[2] = 2
    /\ outcome.val[1].hasUpdate

\* C15: checkForUpdates on a found file.  Over ftp, ftps and sftp it probes
\* no content metadata and reports hasUpdate iff the file's date is strictly
\* later than lastKnownDate; over http and https with non-JSON content it
\* reports hasUpdate iff the probed last-modified is present and strictly
\* later than lastKnownDate.  Equal timestamps are no update.
C15_StrictlyLater ==
    (op = "checkForUpdates" /\ outcome.ok /\ outcome.val[1].file # <<>>)
        => IF protocol \in {"http", "https"}
           THEN /\ C_LastCall.m = "getFileInfo"
                /\ ~C_LastCall.val[1].isJson
                      => (outcome.val[1].hasUpdate
                            <=> /\ C_LastCall.val[1].lastModified # <<>>
                                /\ C_LastCall.val[1].lastModified[1] > arg[2])
           ELSE /\ \A i \in 1..Len(calls) : calls[i].m # "getFileInfo"
                /\ outcome.val[1].hasUpdate <=> outcome.val[1].file[1].date > arg[2]

\* over ftp, a file whose date equals lastKnownDate: no update
C15_Witness ==
    /\ op = "checkForUpdates"
    /\ protocol = "ftp"
    /\ outcome.ok
    /\ outcome.val[1].file # <<>>
    /\ outcome.val[1].file[1].date = arg[2]
    /\ ~outcome.val[1].hasUpdate

\* C16: on a Connected Client with a non-empty path exists(path) never
\* fails: it returns the handler's answer, and false whenever the handler's
\* existence check fails; the only failures exists raises are those of its
\* preconditions (not connected, empty path).
C16_ExistsNeverFails ==
    op = "exists"
        => /\ (adapter # 0 /\ arg[1] # <<>>)
                 => /\ outcome.ok
                    /\ Len(calls) = 1
                    /\ outcome.val = IF calls[1].ok THEN calls[1].val ELSE <<FALSE>>
           /\ ~outcome.ok
                 => /\ calls = <<>>
                    /\ outcome.err \in { <<"Not connected to any server">>,
                                          <<"File path is required for exists check">> }

\* exists() answered false because the handler's check failed
C16_Witness ==
    /\ op = "exists"
    /\ Len(calls) = 1
    /\ ~calls[1].ok
    /\ outcome.ok
    /\ outcome.val = <<FALSE>>

\* the operation in op was called with an empty path argument
C_EmptyPathGiven ==
    \/ op = "upload" /\ (arg[1] = <<>> \/ arg[2] = <<>>)
    \/ op \in {"stat", "exists"} /\ arg[1] = <<>>

\* the argument error of the operation in op
C_ArgumentError ==
    CASE op = "upload" -> <<"Both local and remote paths are required for upload">>
      [] op = "stat"   -> <<"File path is required for stat operation">>
      [] op = "exists" -> <<"File path is required for exists check">>

\* C17: on a Connected Client, upload with an empty local or remote path and
\* stat or exists with an empty path fail at once with an argument error,
\* without a handler call and without a change of the connection state; on
\* a Disconnected Client the not-connected error comes first.
C17_ArgumentErrors ==
    [][ C_EmptyPathGiven'
          => /\ UNCHANGED <<adapter, protocol, connectionConfig, handlers, pc>>
             /\ calls' = <<>>
             /\ sleeps' = <<>>
             /\ outcome' = Done(FALSE,
                                IF adapter = 0 THEN <<"Not connected to any server">>
                                ELSE C_ArgumentError', <<>>) ]_vars

\* upload() with an empty remote path on a Connected Client
C17_Witness ==
    /\ op = "upload"
    /\ adapter # 0
    /\ arg[1] # <<>>
    /\ arg[2] = <<>>
    /\ calls = <<>>
    /\ outcome = Done(FALSE, <<"Both local and remote paths are required for upload">>, <<>>)

\* the host string given to the operation in op
C_Host == IF op = "connect" THEN arg[1].host ELSE arg[1]

\* the tags whose scheme prefix, with or without "//", the host begins with
C_PrefixTags ==
    { t \in Tags : \/ StartsWith(C_Host, TagChars(t) \o sSep)
                   \/ StartsWith(C_Host, TagChars(t) \o sColon) }

\* C18: for each of the five tags t and every remainder r, detect(t + "://"
\* + r) and detect(t + ":" + r), called without a mode hint, return t.
C18_SchemePrefixDetected ==
    (op = "detect" /\ arg[2] = <<>>)
        => \A t \in C_PrefixTags : outcome = Done(TRUE, NoErr, <<t>>)

\* the part of the host before its first "://"
C_Scheme == SubSeq(C_Host, 1, IndexOf(C_Host, sSep) - 1)

\* the host is s + "://" + rest for an s that is none of the five tags
C_SchemeNotATag ==
    /\ Includes(C_Host, sSep)
    /\ \A t \in Tags : C_Scheme # TagChars(t)

\* C19, as stated: for every host s + "://" + rest where s is none of the
\* five tags, detect fails with the unsupported-protocol error naming s.
C19_AnyOtherSchemeFails ==
    (op = "detect" /\ arg[2] = <<>> /\ C_SchemeNotATag)
        => outcome = Done(FALSE, <<"Unsupported protocol: ">> \o C_Scheme, <<>>)

\* C19, amended: for every host s + "://" + rest where s contains no ":" and
\* is none of the five tags, detect without a mode hint fails with the
\* unsupported-protocol error naming s, and connect with such a host fails
\* with that error, constructs no handler, calls none, and leaves the
\* handler reference, the protocol and the config as they were.
C19_UnknownSchemeFails ==
    [][ (/\ op' \in {"detect", "connect"}
         /\ op' = "detect" => arg'[2] = <<>>
         /\ C_SchemeNotATag'
         /\ ~Includes(C_Scheme', sColon))
          => /\ outcome' = Done(FALSE, <<"Unsupported protocol: ">> \o C_Scheme', <<>>)
             /\ calls' = <<>>
             /\ UNCHANGED <<adapter, protocol, connectionConfig, handlers>> ]_vars

\* connect() with an unknown scheme on a Client connected over sftp
C19_Witness ==
    /\ op = "connect"
    /\ arg[1].host = <<"g", ":", "/", "/", "h">>
    /\ outcome = Done(FALSE, <<"Unsupported protocol: ", "g">>, <<>>)
    /\ adapter = 1
    /\ protocol = "sftp"
    /\ Len(handlers) = 1

\* C20: normalizeHost removes exactly one leading scheme prefix and nothing
\* else: normalizeHost(t + "://" + r) = r for every tag t and every r, also
\* when r begins with a tag and a colon; normalizeHost(t + ":" + r) = r; a
\* string without a leading scheme prefix is returned unchanged.
C20_StripsOnePrefix ==
    op = "normalizeHost"
        => LET host == arg[1]
               got == outcome.val[1]
               rest(prefix) == SubSeq(host, Len(prefix) + 1, Len(host))
           IN  /\ \A t \in Tags :
                     /\ StartsWith(host, TagChars(t) \o sSep)
                           => got = rest(TagChars(t) \o sSep)
                     /\ (/\ StartsWith(host, TagChars(t) \o sColon)
                         /\ ~StartsWith(host, TagChars(t) \o sSep))
                           => got = rest(TagChars(t) \o sColon)
               /\ C_PrefixTags = {} => got = host

\* the files of the drawn list that match under the drawn options and strategy
C_Matching ==
    { arg.files[i] : i \in { k \in 1..Len(arg.files) :
          doesFileNameMatch(arg.files[k], arg.options, arg.fileNameType) } }

\* a file's timestamp as the specification defines it: modifyTime whenever it
\* is present, 0 included, else the date field
C_Timestamp(f) == IF f.modifyTime # <<>> THEN f.modifyTime[1] ELSE f.date

\* C21: findBestMatch returns none when no file matches, the single match
\* when exactly one matches, and otherwise a matching file whose timestamp is
\* the greatest among all matches, the timestamp being modifyTime whenever it
\* is present (0 included) and the date field only when it is absent; the
\* result is always one of the matching input files.
C21_GreatestTimestamp ==
    op = "findBestMatch"
        => /\ outcome.ok
           /\ C_Matching = {} => outcome.val = <<>>
           /\ C_Matching # {}
                 => /\ outcome.val # <<>>
                    /\ outcome.val[1] \in C_Matching
                    /\ \A f \in C_Matching :
                          C_Timestamp(f) <= C_Timestamp(outcome.val[1])

\* the part of a path behind its last "/": the suffix without "/" that is the
\* whole path or follows a "/"
C_BasenamePortion(p) ==
    CHOOSE b \in { SubSeq(p, i, Len(p)) : i \in 1..(Len(p) + 1) } :
        /\ \A k \in 1..Len(b) : b[k] # "/"
        /\ Len(b) = Len(p) \/ p[Len(p) - Len(b)] = "/"

\* C22: under the exact strategy a file matches if and only if its name is
\* character for character the basename portion of options.filepath; a name
\* differing only by case, or with an extra suffix or prefix, never matches.
C22_ExactMatch ==
    (op = "doesFileNameMatch" /\ arg.fileNameType = "exact")
        => /\ outcome.ok
           /\ outcome.val[1] = (arg.files[1].name = C_BasenamePortion(arg.options.filepath))

\* exact matched "a.t" against the file path "d/a.t"
C22_Witness ==
    /\ op = "doesFileNameMatch"
    /\ arg.fileNameType = "exact"
    /\ arg.options.filepath = pDA
    /\ arg.files[1].name = nA
    /\ outcome.val = <<TRUE>>

\* smart was asked about a file whose extension differs, case ignored, from a
\* non-empty extname
C_ExtensionDiffers ==
    /\ op = "doesFileNameMatch"
    /\ arg.fileNameType = "smart"
    /\ arg.options.extname # <<>>
    /\ ToLowerCase(PathExt(arg.files[1].name)) # ToLowerCase(arg.options.extname)

\* C23 as stated: under the smart strategy with a non-empty extname, a file
\* whose extension differs (case ignored) from extname is never matched.
C23_ExtensionMismatchNeverMatches ==
    C_ExtensionDiffers => outcome.val = <<FALSE>>

\* C23 amended: under the smart strategy with a non-empty extname, a file
\* whose extension differs (case ignored) from extname is not matched unless
\* its name is literally basename + extname.
C23_ExtensionMismatchRejected ==
    (C_ExtensionDiffers /\ arg.files[1].name # arg.options.basename \o arg.options.extname)
        => outcome.val = <<FALSE>>

\* smart rejected "a.x" for the target "a" + ".t": equal base names, other
\* extension
C23_Witness ==
    /\ C_ExtensionDiffers
    /\ arg.files[1].name = <<"a", ".", "x">>
    /\ arg.options.basename = <<"a">>
    /\ arg.options.extname = <<".", "t">>
    /\ outcome.val = <<FALSE>>

\* C24: findBestMatch never fails: for every file list, options and strategy
\* it returns a file or none; under the regex strategy a pattern that cannot
\* be compiled matches no file and yields none.
C24_NeverFails ==
    op = "findBestMatch"
        => /\ outcome.ok
           /\ \/ outcome.val = <<>>
              \/ \E i \in 1..Len(arg.files) : outcome.val = << arg.files[i] >>
           /\ (arg.fileNameType = "regex" /\ regexThrows(arg.options.basename))
                 => outcome.val = <<>>

\* findBestMatch answered none for the pattern "a(" over a list with files
C24_Witness ==
    /\ op = "findBestMatch"
    /\ arg.fileNameType = "regex"
    /\ arg.options.basename = <<"a", "(">>
    /\ Len(arg.files) = 2
    /\ outcome = Done(TRUE, NoErr, <<>>)

\* smart was asked about a file that passes the extension check: extname is
\* empty or equals the file's extension, case ignored
C_PassesExtensionCheck ==
    /\ op = "doesFileNameMatch"
    /\ arg.fileNameType = "smart"
    /\ \/ arg.options.extname = <<>>
       \/ ToLowerCase(PathExt(arg.files[1].name)) = ToLowerCase(arg.options.extname)

\* the rule of C28 for the drawn file: the normalized base names are equal,
\* or the file's starts with the target's and the rest is a date, version or
\* time suffix
C_SmartRule ==
    LET normalizedFile == normalizeString(PathName(arg.files[1].name))
        normalizedTarget == normalizeString(arg.options.basename)
    IN  \/ normalizedFile = normalizedTarget
        \/ /\ StartsWith(normalizedFile, normalizedTarget)
           /\ isDateTimeSuffix(SubSeq(normalizedFile, Len(normalizedTarget) + 1,
                                      Len(normalizedFile)))

\* C28 as stated: under the smart strategy a file that passes the extension
\* check matches when the base names are equal after normalization, or when
\* the normalized base name starts with the normalized target and the
\* remaining suffix matches one of the date, version and time patterns; in
\* every other case it does not match.
C28_SmartRuleAlways ==
    C_PassesExtensionCheck => outcome.val = << C_SmartRule >>

\* C28 amended: the same, for a file whose name is not literally
\* basename + extname (such a file always matches).
C28_SmartRule ==
    (C_PassesExtensionCheck
       /\ arg.files[1].name # arg.options.basename \o arg.options.extname)
        => outcome.val = << C_SmartRule >>

\* smart matched "a-2.T" for the target "a" + ".t": the extension passes with
\* case ignored and the normalized rest "2" is a number suffix
C28_Witness ==
    /\ C_PassesExtensionCheck
    /\ arg.files[1].name = <<"a", "-", "2", ".", "T">>
    /\ arg.options.basename = <<"a">>
    /\ arg.options.extname = <<".", "t">>
    /\ outcome.val = <<TRUE>>

\* the positions of the drawn list whose file matches and has the greatest
\* timestamp among the matching files
C_Newest ==
    LET matching == { k \in 1..Len(arg.files) :
                        doesFileNameMatch(arg.files[k], arg.options, arg.fileNameType) }
    IN  { k \in matching :
            \A j \in matching : C_Timestamp(arg.files[j]) <= C_Timestamp(arg.files[k]) }

\* C30: when several matching files share the greatest timestamp,
\* findBestMatch returns the one that comes first in the input list.
C30_TieGoesToFirst ==
    (op = "findBestMatch" /\ Cardinality(C_Newest) >= 2)
        => outcome.val = << arg.files[CHOOSE k \in C_Newest : \A j \in C_Newest : k <= j] >>

\* the Client is Connected over http or https
C_ConnectedOverHttp == adapter # 0 /\ protocol \in {"http", "https"}

\* the error of list or upload on the http handler, as the Client throws it
C_Unsupported(opName) ==
    IF opName = "list"
    THEN <<"Failed to list directory: ", "HTTP adapter does not support directory listing">>
    ELSE <<"Failed to upload file: ", "HTTP adapter does not support file upload">>

\* C25 as stated: on a Client connected over http or https, list and upload
\* fail with the 'does not support' error for every argument.
C25_AlwaysUnsupported ==
    (C_ConnectedOverHttp /\ op \in {"list", "upload"})
        => outcome = Done(FALSE, C_Unsupported(op), <<>>)

\* C25 amended: on a Client connected over http or https, list with every
\* argument and upload with two non-empty paths fail with the 'does not
\* support' error; the handler is called once, answers with that error
\* alone, and the Client stays Connected with protocol and config unchanged.
C25_UnsupportedOverHttp ==
    [][ (/\ C_ConnectedOverHttp
         /\ op' \in {"list", "upload"}
         /\ ~C_EmptyPathGiven')
          => /\ outcome' = Done(FALSE, C_Unsupported(op'), <<>>)
             /\ calls' = << Call(adapter, op', Err(<< C_Unsupported(op')[2] >>)) >>
             /\ UNCHANGED <<adapter, protocol, connectionConfig, handlers, pc>>
             /\ C_ConnectedOverHttp' ]_vars

\* list() was refused on a Client connected over https
C25_Witness ==
    /\ C_ConnectedOverHttp
    /\ protocol = "https"
    /\ op = "list"
    /\ outcome = Done(FALSE, C_Unsupported("list"), <<>>)
    /\ handlers[adapter].isConnected

\* the handlers the Client created whose underlying connection is open
C_Live == { i \in 1..Len(handlers) : handlers[i].open }

\* C26: after any sequence of connect() and disconnect() calls at most one
\* handler created by the Client holds a live underlying connection: a
\* handler replaced by a new connect() has been disconnected, and once
\* disconnect() has completed no handler still holds a connection.
C26_AtMostOneLive ==
    /\ Cardinality(C_Live) <= 1
    /\ C_Live \subseteq {adapter}
    /\ (op = "disconnect" /\ outcome.ok) => C_Live = {}

\* connect() has called the connect of a file-transfer (ftp/ftps) handler
C_FtpConnectCalled ==
    /\ op = "connect"
    /\ calls # <<>>
    /\ calls[1].m = "connect"
    /\ handlers[calls[1].h].kind = "ftp"

\* C29: the file-transfer handler opens a TLS-secured connection exactly
\* when the protocol detected for config.host is ftps or config.secure is
\* true; a host detected as plain ftp with no secure flag is connected
\* without TLS.
C29_TlsIffFtpsOrSecure ==
    C_FtpConnectCalled
        => calls[1].val = << protocol = "ftps" \/ arg[1].secure >>

\* the five tags in the order the rules test them
C_TagOrder == <<"sftp", "ftps", "ftp", "https", "http">>

\* the first tag of C_TagOrder that satisfies P, "none" when there is none
C_FirstTag(P(_)) ==
    LET at == { i \in 1..Len(C_TagOrder) : P(C_TagOrder[i]) }
    IN  IF at = {} THEN "none" ELSE C_TagOrder[CHOOSE i \in at : \A j \in at : i <= j]

\* what the five rules of C27 give for a host and a mode hint
C_Rules(host, hint) ==
    LET hinted(t) == StartsWith(hint, TagChars(t))
        prefixed(t) == \/ StartsWith(host, TagChars(t) \o sSep)
                       \/ StartsWith(host, TagChars(t) \o sColon)
        scheme == SubSeq(host, 1, IndexOf(host, sSep) - 1)
    IN  IF hint # <<>> /\ C_FirstTag(hinted) # "none"
            THEN Done(TRUE, NoErr, << C_FirstTag(hinted) >>)
        ELSE IF C_FirstTag(prefixed) # "none"
            THEN Done(TRUE, NoErr, << C_FirstTag(prefixed) >>)
        ELSE IF Includes(host, sSep) /\ \A t \in Tags : scheme # TagChars(t)
            THEN Done(FALSE, <<"Unsupported protocol: ">> \o scheme, <<>>)
        ELSE IF Includes(host, sSFTP)  THEN Done(TRUE, NoErr, <<"sftp">>)
        ELSE IF Includes(host, sHTTPS) THEN Done(TRUE, NoErr, <<"https">>)
        ELSE IF Includes(host, sHTTP)  THEN Done(TRUE, NoErr, <<"http">>)
        ELSE Done(TRUE, NoErr, <<"ftp">>)

\* C27: detect(host, hint) returns the outcome of the first applicable rule
\* in this order: a hint that starts with a tag (tested in the order sftp,
\* ftps, ftp, https, http); the host's scheme prefix, same order; failure for
\* a "://" host with an unknown scheme; the substrings sftp, https, http of
\* the host; ftp.
C27_RuleOrder ==
    op = "detect" => outcome = C_Rules(arg[1], arg[2])

\* C31: no data operation changes the connection state: in every step of
\* list, download (up to the exhaustion of its retries), upload, stat,
\* exists, lastModified, findFile and checkForUpdates the handler reference,
\* the protocol and the config stay as they were before the call.
C31_DataOpsKeepConnection ==
    [][ op' \in C_DataOps
          => UNCHANGED <<adapter, protocol, connectionConfig>> ]_vars

\* a download over sftp has used up its three retries and the Client is
\* still Connected
C31_Witness ==
    /\ op = "download"
    /\ outcome.done /\ ~outcome.ok
    /\ Len(calls) = 4
    /\ Len(sleeps) = 3
    /\ adapter # 0
    /\ protocol = "sftp"
    /\ connectionConfig # <<>>

\* C32: if FtpAdapter.connect fails at any step, no underlying connection
\* stays open beyond the adapter's control: none was opened, or the failure
\* path closed it, or the adapter still counts as connected, so that a
\* subsequent disconnect() closes it; after disconnect() none is open.
C32_FailedConnectLeaksNothing ==
    /\ \A i \in 1..Len(handlers) :
          (handlers[i].kind = "ftp" /\ handlers[i].open) => handlers[i].isConnected
    /\ (op = "disconnect" /\ calls # <<>> /\ handlers[calls[1].h].kind = "ftp")
          => ~handlers[calls[1].h].open

\* C33 as stated: all handler calls of one download go to the handler that
\* was active when the call started, and no attempt is made on a cleared
\* handler reference.
C33_OneHandlerPerDownload ==
    op = "download"
        => /\ \A i \in 1..Len(calls) : calls[i].h = calls[1].h
           /\ pc = "try" => adapter # 0

\* C33 amended: download reads the handler reference anew on every attempt
\* and changes it in none of its steps: each attempt calls the handler that
\* is active at that moment, and an attempt on a cleared reference calls no
\* handler and counts as a failed attempt with a TypeError.
C33_AttemptsUseCurrentHandler ==
    [][ /\ (pc = "try" \/ (pc = "sleep" /\ pc' # "sleep")) => UNCHANGED adapter
        /\ (pc = "try" /\ adapter # 0)
              => /\ Len(calls') = Len(calls) + 1
                 /\ SubSeq(calls', 1, Len(calls)) = calls
                 /\ calls'[Len(calls')].h = adapter
                 /\ calls'[Len(calls')].m = "download"
        /\ (pc = "try" /\ adapter = 0)
              => /\ calls' = calls
                 /\ pc' = "idle" => outcome' = Done(FALSE, <<"TypeError">>, <<>>)
                 /\ pc' # "idle" => pc' = "sleep" ]_vars

\* a download whose first attempt failed on one handler and whose second
\* succeeded on the handler of a connect() that completed during the wait
C33_Witness ==
    /\ op = "download"
    /\ outcome.done /\ outcome.ok
    /\ Len(calls) = 2
    /\ calls[1].h = 1
    /\ calls[2].h = 2
    /\ adapter = 2

====
